---- MODULE Spec2Model ----
(***************************************************************************)
(* Model of the Proof-of-Stake final state of massa-pos-exports            *)
(* (src/massa-pos-exports/src/types.rs): the cycle history and the         *)
(* deferred credits of a PoSFinalState, and the bootstrap streaming pair   *)
(* get_*_part / set_*_part that copies them from a sender node to a        *)
(* receiver node as byte strings.                                          *)
(***************************************************************************)
EXTENDS Integers, Sequences, FiniteSets, TLC

(***************************************************************************)
(* Option<T>: None is the empty tuple, Some(x) the one-element tuple.      *)
(***************************************************************************)
None == <<>>
Some(x) == <<x>>
IsSome(o) == o # <<>>
Unwrap(o) == o[1]

Last(s) == s[Len(s)]
Drop(s, n) == SubSeq(s, n + 1, Len(s))
Take(s, n) == SubSeq(s, 1, n)
EmptyMap == <<>>

(***************************************************************************)
(* Model bounds.                                                           *)
(***************************************************************************)
\* largest cycle number the live sender opens
MaxCycle == 6
\* most seed bits the live sender's history holds, all cycles together
MaxSeedBits == 1
\* most times a part is delivered again to the receiver
MaxRedeliver == 1
\* threads per period (the thread_count both nodes are configured with)
THREAD_COUNT == 2
\* most seed bits a PoSChanges holds after its extends
MaxChangeBits == 16
\* most events sent on the event channel
MaxEvents == 4
\* most Sender halves of the event channel alive at once
MaxSenders == 2
\* capacity of the event channel
ChannelCapacity == 2

(***************************************************************************)
(* Program constants.                                                      *)
(***************************************************************************)
\* the hard-coded "history is full" length of get_first_cycle_index
HISTORY_LENGTH == 6
\* bytes of the raw image of an Address
ADDRESS_SIZE_BYTES == 32
\* u64::MAX, the upper end of the varint ranges (the largest model integer)
U64_MAX == 2147483647
\* Amount::MAX, scaled down so that sums in the model can reach it
AMOUNT_MAX == 300

(***************************************************************************)
(* Nom parse results: a value and the unconsumed rest, or a failure.       *)
(* tuple((p1, p2, ...)) is modelled by threading a result whose value is   *)
(* the tuple parsed so far: Start, then one Then... step per parser.       *)
(***************************************************************************)
POk(v, r) == [ok |-> TRUE, val |-> v, rest |-> r]
PFail == [ok |-> FALSE, val |-> 0, rest |-> <<>>]

Start(input) == POk(<<>>, input)

\* append the value parsed by the next parser of a tuple, or fail with it
Push(st, r) == IF ~r.ok THEN PFail ELSE POk(Append(st.val, r.val), r.rest)

(***************************************************************************)
(* U64VarIntSerializer / U64VarIntDeserializer: little-endian base 128     *)
(* with a continuation bit; the deserializer takes an inclusive range.     *)
(***************************************************************************)
RECURSIVE U64VarIntSerialize(_)
U64VarIntSerialize(n) ==
    IF n < 128 THEN <<n>>
    ELSE <<(n % 128) + 128>> \o U64VarIntSerialize(n \div 128)

RECURSIVE VarIntDecode(_, _, _, _)
VarIntDecode(input, i, acc, mul) ==
    IF i > Len(input) THEN PFail
    ELSE IF input[i] < 128 THEN POk(acc + input[i] * mul, Drop(input, i))
    ELSE VarIntDecode(input, i + 1, acc + (input[i] - 128) * mul, mul * 128)

RangeCheck(r, lo, hi) ==
    IF r.ok /\ (r.val < lo \/ r.val > hi) THEN PFail ELSE r

U64VarIntDeserialize(input, lo, hi) ==
    RangeCheck(VarIntDecode(input, 1, 0, 1), lo, hi)

\* U64VarIntDeserializer::new(Included(u64::MIN), Included(u64::MAX))
u64_deser(input) == U64VarIntDeserialize(input, 0, U64_MAX)

ThenU64(st) == IF ~st.ok THEN PFail ELSE Push(st, u64_deser(st.rest))

(***************************************************************************)
(* Address: the 32-byte raw image, written with to_bytes() and read back   *)
(* by AddressDeserializer as the next 32 bytes.  Addresses are ordered as  *)
(* byte strings.                                                           *)
(***************************************************************************)
AddressOf(b) ==
    [i \in 1..ADDRESS_SIZE_BYTES |->
        IF i = ADDRESS_SIZE_BYTES THEN b ELSE (7 * i) % 256]
A1 == AddressOf(1)
A2 == AddressOf(2)

to_bytes(addr) == addr

address_deser(input) ==
    IF Len(input) < ADDRESS_SIZE_BYTES THEN PFail
    ELSE POk(Take(input, ADDRESS_SIZE_BYTES), Drop(input, ADDRESS_SIZE_BYTES))

ThenAddress(st) == IF ~st.ok THEN PFail ELSE Push(st, address_deser(st.rest))

\* the derived order of byte strings and of (period, thread) pairs
RECURSIVE SeqLess(_, _)
SeqLess(a, b) ==
    IF Len(b) = 0 THEN FALSE
    ELSE IF Len(a) = 0 THEN TRUE
    ELSE IF a[1] # b[1] THEN a[1] < b[1]
    ELSE SeqLess(Tail(a), Tail(b))

MinKey(S) == CHOOSE x \in S : \A y \in S \ {x} : SeqLess(x, y)
MaxKey(S) == CHOOSE x \in S : \A y \in S \ {x} : SeqLess(y, x)

\* the keys of an ordered map (BTreeMap), ascending
RECURSIVE SortedKeys(_)
SortedKeys(S) ==
    IF S = {} THEN <<>> ELSE <<MinKey(S)>> \o SortedKeys(S \ {MinKey(S)})

\* the orders in which a hash map (PreHashMap) may be iterated
IterOrders(S) ==
    {o \in [1..Cardinality(S) -> S] :
        \A i, j \in 1..Cardinality(S) : i # j => o[i] # o[j]}

(***************************************************************************)
(* BitVecSerializer / BitVecDeserializer: the bit length as a varint, then *)
(* ceil(N/8) bytes, first bit in the most significant bit of the first     *)
(* byte, padding bits zero (checked by the deserializer).                  *)
(***************************************************************************)
Pow2(k) == CASE k = 0 -> 1 [] k = 1 -> 2 [] k = 2 -> 4 [] k = 3 -> 8
             [] k = 4 -> 16 [] k = 5 -> 32 [] k = 6 -> 64 [] k = 7 -> 128

RECURSIVE SumTo(_, _)
SumTo(f, n) == IF n = 0 THEN 0 ELSE f[n] + SumTo(f, n - 1)

BitAt(bits, i) == IF i <= Len(bits) THEN bits[i] ELSE 0

PackByte(bits, k) ==
    SumTo([j \in 1..8 |-> BitAt(bits, 8 * k + j) * Pow2(8 - j)], 8)

BitVecSerialize(bits) ==
    U64VarIntSerialize(Len(bits))
        \o [k \in 1..((Len(bits) + 7) \div 8) |-> PackByte(bits, k - 1)]

\* bit i (from 1) of a byte string, most significant bit of each byte first
BitOf(bytes, i) == (bytes[((i - 1) \div 8) + 1] \div Pow2(7 - ((i - 1) % 8))) % 2

BitVecBytes(nbits, rest, nbytes) ==
    IF Len(rest) < nbytes THEN PFail
    ELSE IF \E i \in (nbits + 1)..(8 * nbytes) : BitOf(rest, i) # 0 THEN PFail
    ELSE POk([i \in 1..nbits |-> BitOf(rest, i)], Drop(rest, nbytes))

BitVecBody(n) ==
    IF ~n.ok THEN PFail ELSE BitVecBytes(n.val, n.rest, (n.val + 7) \div 8)

BitVecDeserialize(input) == BitVecBody(u64_deser(input))

ThenBitVec(st) == IF ~st.ok THEN PFail ELSE Push(st, BitVecDeserialize(st.rest))

(***************************************************************************)
(* The element parsers of set_cycle_history_part and their length_count    *)
(* lists: the count, then that many elements, failing with the first       *)
(* element that fails.                                                     *)
(***************************************************************************)
\* tuple((address, u64)): an entry of roll_counts
RollEntryParse(input) == ThenU64(ThenAddress(Start(input)))

\* tuple((address, u64, u64)): an entry of production_stats
StatsEntryParse(input) == ThenU64(ThenU64(ThenAddress(Start(input))))

RECURSIVE RollEntries(_, _)
RollEntries(n, st) ==
    IF ~st.ok THEN PFail
    ELSE IF n = 0 THEN st
    ELSE RollEntries(n - 1, Push(st, RollEntryParse(st.rest)))

RECURSIVE StatsEntries(_, _)
StatsEntries(n, st) ==
    IF ~st.ok THEN PFail
    ELSE IF n = 0 THEN st
    ELSE StatsEntries(n - 1, Push(st, StatsEntryParse(st.rest)))

RollCountsBody(n) == IF ~n.ok THEN PFail ELSE RollEntries(n.val, Start(n.rest))

RollCountsParse(input) == RollCountsBody(u64_deser(input))

ProductionStatsBody(n) ==
    IF ~n.ok THEN PFail ELSE StatsEntries(n.val, Start(n.rest))

ProductionStatsParse(input) == ProductionStatsBody(u64_deser(input))

\* alt((value(true, tag(&[1])), value(false, tag(&[0]))))
CompleteParse(input) ==
    IF Len(input) = 0 THEN PFail
    ELSE IF input[1] = 1 THEN POk(TRUE, Tail(input))
    ELSE IF input[1] = 0 THEN POk(FALSE, Tail(input))
    ELSE PFail

ThenComplete(st) == IF ~st.ok THEN PFail ELSE Push(st, CompleteParse(st.rest))

ThenRollCounts(st) ==
    IF ~st.ok THEN PFail ELSE Push(st, RollCountsParse(st.rest))

ThenProductionStats(st) ==
    IF ~st.ok THEN PFail ELSE Push(st, ProductionStatsParse(st.rest))

\* tuple((cycle, complete, roll_counts, rng_seed, production_stats))
CycleHistoryParse(part) ==
    ThenProductionStats(ThenBitVec(ThenRollCounts(ThenComplete(
        ThenU64(Start(part))))))

(***************************************************************************)
(* Maps are functions on their key set.  Collecting or extending a map     *)
(* from a list of entries inserts them in order, the last one winning.     *)
(***************************************************************************)
MapInsert(m, k, v) == [x \in (DOMAIN m) \cup {k} |-> IF x = k THEN v ELSE m[x]]

RECURSIVE ExtendRolls(_, _)
ExtendRolls(m, entries) ==
    IF entries = <<>> THEN m
    ELSE ExtendRolls(MapInsert(m, entries[1][1], entries[1][2]), Tail(entries))

ProductionStats(s, f) == [block_success_count |-> s, block_failure_count |-> f]

RECURSIVE ExtendStats(_, _)
ExtendStats(m, entries) ==
    IF entries = <<>> THEN m
    ELSE ExtendStats(MapInsert(m, entries[1][1],
                               ProductionStats(entries[1][2], entries[1][3])),
                     Tail(entries))

CycleInfo(c, done, rolls, seed, stats) ==
    [cycle |-> c, complete |-> done, roll_counts |-> rolls,
     rng_seed |-> seed, production_stats |-> stats]

(***************************************************************************)
(* PoSFinalState: [cycle_history, deferred_credits].  cycle_history is a   *)
(* sequence of CycleInfo, back = newest; indexes below are 0-based as in   *)
(* the code.                                                               *)
(***************************************************************************)
PoSFinalState(history, credits) ==
    [cycle_history |-> history, deferred_credits |-> credits]

\* get_first_cycle_index without the skip of the bootstrap safety cycle
FirstCycleIndexNoSkip(self) == 0

get_first_cycle_index(self) ==
    IF Len(self.cycle_history) >= HISTORY_LENGTH THEN 1 ELSE 0

FirstOf(hits) ==
    IF hits = {} THEN None
    ELSE Some((CHOOSE i \in hits : \A j \in hits : i <= j) - 1)

\* iter().position(|cycle| cycle.cycle == last_cycle): None or Some(index)
Position(history, last_cycle) ==
    FirstOf({i \in 1..Len(history) : history[i].cycle = last_cycle})

\* IndexAfter without the early return for a cursor at the last entry
IndexAfterNoReturn(self, pos) ==
    IF IsSome(pos)
    THEN Some(Unwrap(pos) + 1)
    ELSE Some(get_first_cycle_index(self))

\* IndexAfter that restarts an outdated cursor at the oldest entry
IndexAfterFromOldest(self, pos) ==
    IF IsSome(pos)
    THEN IF Unwrap(pos) = Len(self.cycle_history) - 1
         THEN None
         ELSE Some(Unwrap(pos) + 1)
    ELSE Some(0)

\* the index after the cursor's, None on the early return taken when the
\* cursor names the last entry, the first index for an outdated cursor
IndexAfter(self, pos) ==
    IF IsSome(pos)
    THEN IF Unwrap(pos) = Len(self.cycle_history) - 1
         THEN None
         ELSE Some(Unwrap(pos) + 1)
    ELSE Some(get_first_cycle_index(self))

\* the target index of get_cycle_history_part, or None on the early return
CycleIndex(self, cursor) ==
    IF IsSome(cursor)
    THEN IndexAfter(self, Position(self.cycle_history, Unwrap(cursor)))
    ELSE Some(get_first_cycle_index(self))

RECURSIVE SerializeRolls(_, _)
SerializeRolls(rolls, keys) ==
    IF keys = <<>> THEN <<>>
    ELSE to_bytes(keys[1]) \o U64VarIntSerialize(rolls[keys[1]])
             \o SerializeRolls(rolls, Tail(keys))

RECURSIVE SerializeStats(_, _)
SerializeStats(stats, keys) ==
    IF keys = <<>> THEN <<>>
    ELSE to_bytes(keys[1])
             \o U64VarIntSerialize(stats[keys[1]].block_success_count)
             \o U64VarIntSerialize(stats[keys[1]].block_failure_count)
             \o SerializeStats(stats, Tail(keys))

\* the bytes of one CycleInfo; order is the iteration order of the
\* production_stats hash map
SerializeCycleInfo(info, order) ==
    U64VarIntSerialize(info.cycle)
        \o <<IF info.complete THEN 1 ELSE 0>>
        \o U64VarIntSerialize(Cardinality(DOMAIN info.roll_counts))
        \o SerializeRolls(info.roll_counts, SortedKeys(DOMAIN info.roll_counts))
        \o BitVecSerialize(info.rng_seed)
        \o U64VarIntSerialize(Cardinality(DOMAIN info.production_stats))
        \o SerializeStats(info.production_stats, order)

GetResult(p, c, d) == [part |-> p, cursor |-> c, complete |-> d]

\* EmitCycleInfo that always reports the cycle as incomplete
EmitCycleInfoIncomplete(info, order) ==
    GetResult(SerializeCycleInfo(info, order), Some(info.cycle), Some(FALSE))

EmitCycleInfo(info, order) ==
    GetResult(SerializeCycleInfo(info, order), Some(info.cycle), Some(info.complete))

\* EmitCycle that sends the newest entry again on the early return
EmitCycleResend(self, cursor, idx, order) ==
    IF ~IsSome(idx) THEN EmitCycleInfo(Last(self.cycle_history), order)
    ELSE IF Unwrap(idx) < Len(self.cycle_history)
    THEN EmitCycleInfo(self.cycle_history[Unwrap(idx) + 1], order)
    ELSE GetResult(<<>>, None, None)

\* the answer for a target index idx (None: the early return)
EmitCycle(self, cursor, idx, order) ==
    IF ~IsSome(idx) THEN GetResult(<<>>, cursor, Some(FALSE))
    ELSE IF Unwrap(idx) < Len(self.cycle_history)
    THEN EmitCycleInfo(self.cycle_history[Unwrap(idx) + 1], order)
    ELSE GetResult(<<>>, None, None)

\* returns (part, last_cycle, complete_ident)
get_cycle_history_part(self, cursor, order) ==
    EmitCycle(self, cursor, CycleIndex(self, cursor), order)

\* ReachesLenMinusOne of a call that computes len() - 1 before it looks
\* the cursor up
ReachesLenMinusOneHoisted(self, cursor) == IsSome(cursor)

\* the call evaluates self.cycle_history.len() - 1: only inside
\* `if let Some(index) = position(..)`, once the cursor was found
ReachesLenMinusOne(self, cursor) ==
    /\ IsSome(cursor)
    /\ IsSome(Position(self.cycle_history, Unwrap(cursor)))

\* len() - 1 in usize overflows on an empty history: a panic in a build
\* with overflow checks, the wrapped value usize::MAX (which no index
\* equals) in a build without them
LenMinusOneOutcomes(self) ==
    IF Len(self.cycle_history) = 0 THEN {"panic", "Ok"} ELSE {"Ok"}

\* self.cycle_history.get(cycle_index): None when the index is out of
\* bounds, never a panic
GetEntry(history, index) ==
    IF index < Len(history) THEN Some(history[index + 1]) ELSE None

\* how a call of get_cycle_history_part may end
GetCycleOutcomes(self, cursor) ==
    IF ReachesLenMinusOne(self, cursor) THEN LenMinusOneOutcomes(self)
    ELSE {"Ok"}

\* the iteration orders a call may see for the entry at index idx
OrdersAt(self, idx) ==
    IF IsSome(idx) /\ Unwrap(idx) < Len(self.cycle_history)
    THEN IterOrders(DOMAIN self.cycle_history[Unwrap(idx) + 1].production_stats)
    ELSE {<<>>}

StatsOrders(self, cursor) == OrdersAt(self, CycleIndex(self, cursor))

(***************************************************************************)
(* set_cycle_history_part: the result is the error kind ("" for Ok), the   *)
(* returned cursor and the state the call leaves in self.                  *)
(***************************************************************************)
SetResult(e, r, st) == [err |-> e, ret |-> r, state |-> st]

\* MergeBack that replaces rng_seed by the payload's bits
MergeBackReplaceSeed(info, cycle) ==
    CycleInfo(info.cycle, cycle[2],
              ExtendRolls(info.roll_counts, cycle[3]),
              cycle[4],
              ExtendStats(info.production_stats, cycle[5]))

\* the in-place merge of a parsed cycle into the newest entry
MergeBack(info, cycle) ==
    CycleInfo(info.cycle, cycle[2],
              ExtendRolls(info.roll_counts, cycle[3]),
              info.rng_seed \o cycle[4],
              ExtendStats(info.production_stats, cycle[5]))

\* the branch taken when nothing is left after the payload
MergeOrPush(history, cycle) ==
    IF Len(history) > 0 /\ Last(history).cycle = cycle[1]
    THEN [history EXCEPT ![Len(history)] = MergeBack(@, cycle)]
    ELSE Append(history,
                CycleInfo(cycle[1], cycle[2], ExtendRolls(EmptyMap, cycle[3]),
                          cycle[4], ExtendStats(EmptyMap, cycle[5])))

\* CycleOk that returns the cycle of the front entry
CycleOkFront(self, history) ==
    SetResult("", Some(history[1].cycle), [self EXCEPT !.cycle_history = history])

\* Ok(self.cycle_history.back().map(|v| v.cycle))
CycleOk(self, history) ==
    SetResult("", Some(Last(history).cycle), [self EXCEPT !.cycle_history = history])

\* ApplyCyclePart that merges before it looks at the rest of the input
ApplyCyclePartEager(self, p) ==
    IF ~p.ok THEN SetResult("DeserializeError", None, self)
    ELSE IF p.rest = <<>> THEN CycleOk(self, MergeOrPush(self.cycle_history, p.val))
    ELSE SetResult("SerializeError", None,
                   CycleOk(self, MergeOrPush(self.cycle_history, p.val)).state)

ApplyCyclePart(self, p) ==
    IF ~p.ok THEN SetResult("DeserializeError", None, self)
    ELSE IF p.rest = <<>> THEN CycleOk(self, MergeOrPush(self.cycle_history, p.val))
    ELSE SetResult("SerializeError", None, self)

\* set_cycle_history_part without the early return on an empty part
SetCycleHistoryPartNoEarlyReturn(self, part) ==
    ApplyCyclePart(self, CycleHistoryParse(part))

set_cycle_history_part(self, part) ==
    IF part = <<>> THEN SetResult("", None, self)
    ELSE ApplyCyclePart(self, CycleHistoryParse(part))

(***************************************************************************)
(* Slot = <<period, thread>>, ordered by period then thread.               *)
(* SlotSerializer writes the period as a varint and the thread as one      *)
(* byte; SlotDeserializer bounds the thread by [0, thread_count).          *)
(* Amount is its raw integer, written as a varint and bounded on reading   *)
(* by [Amount::MIN, Amount::MAX].                                          *)
(***************************************************************************)
Slot(period, thread) == <<period, thread>>

SlotSerialize(slot) == U64VarIntSerialize(slot[1]) \o <<slot[2]>>

SlotThread(p, thread_count) ==
    IF ~p.ok \/ Len(p.rest) = 0 THEN PFail
    ELSE IF p.rest[1] >= thread_count THEN PFail
    ELSE POk(Slot(p.val, p.rest[1]), Tail(p.rest))

SlotDeserialize(input, thread_count) == SlotThread(u64_deser(input), thread_count)

AmountSerialize(amount) == U64VarIntSerialize(amount)

AmountDeserialize(input) == U64VarIntDeserialize(input, 0, AMOUNT_MAX)

\* saturating_add without the cap at Amount::MAX
AmountAddUncapped(a, b) == a + b

saturating_add(a, b) == IF a + b > AMOUNT_MAX THEN AMOUNT_MAX ELSE a + b

(***************************************************************************)
(* DeferredCredits: a map Slot -> (map Address -> Amount).                 *)
(***************************************************************************)
\* entry(address).and_modify(saturating_add).or_insert(new_amount)
CreditEntry(current_credits, address, new_amount) ==
    IF address \in DOMAIN current_credits
    THEN [current_credits EXCEPT ![address] = saturating_add(@, new_amount)]
    ELSE MapInsert(current_credits, address, new_amount)

\* the inner loop of nested_extend over the entries of new_credits
RECURSIVE ExtendCredits(_, _, _)
ExtendCredits(current_credits, new_credits, keys) ==
    IF keys = <<>> THEN current_credits
    ELSE ExtendCredits(CreditEntry(current_credits, keys[1], new_credits[keys[1]]),
                       new_credits, Tail(keys))

\* SlotEntry without the or_insert of a slot that is not there yet
SlotEntryNoInsert(credits, slot, new_credits) ==
    IF slot \in DOMAIN credits
    THEN [credits EXCEPT ![slot] =
            ExtendCredits(@, new_credits, SortedKeys(DOMAIN new_credits))]
    ELSE credits

\* entry(slot).and_modify(...).or_insert(new_credits)
SlotEntry(credits, slot, new_credits) ==
    IF slot \in DOMAIN credits
    THEN [credits EXCEPT ![slot] =
            ExtendCredits(@, new_credits, SortedKeys(DOMAIN new_credits))]
    ELSE MapInsert(credits, slot, new_credits)

RECURSIVE NestedExtendLoop(_, _, _)
NestedExtendLoop(credits, other, slots) ==
    IF slots = <<>> THEN credits
    ELSE NestedExtendLoop(SlotEntry(credits, slots[1], other[slots[1]]),
                          other, Tail(slots))

nested_extend(credits, other) ==
    NestedExtendLoop(credits, other, SortedKeys(DOMAIN other))

\* credits.retain(|_addr, amount| !amount.is_zero())
RetainNonZero(credits) ==
    [address \in {a \in DOMAIN credits : credits[a] # 0} |-> credits[address]]

\* remove_zeros that leaves the emptied slots in the map
RemoveZerosKeepSlots(credits) ==
    [slot \in DOMAIN credits |-> RetainNonZero(credits[slot])]

\* DeferredCredits::remove_zeros: retain in every slot, then remove the
\* slots pushed to delete_slots
remove_zeros(credits) ==
    [slot \in {s \in DOMAIN credits : RetainNonZero(credits[s]) # EmptyMap}
        |-> RetainNonZero(credits[slot])]

(***************************************************************************)
(* get_deferred_credits_part                                               *)
(***************************************************************************)
\* range((Excluded(cursor), Unbounded)), or the whole map for None
CreditsRange(credits, cursor) ==
    {slot \in DOMAIN credits : ~IsSome(cursor) \/ SeqLess(Unwrap(cursor), slot)}

RECURSIVE SerializeCredits(_, _)
SerializeCredits(credits, keys) ==
    IF keys = <<>> THEN <<>>
    ELSE to_bytes(keys[1]) \o AmountSerialize(credits[keys[1]])
             \o SerializeCredits(credits, Tail(keys))

RECURSIVE SerializeSlots(_, _, _)
SerializeSlots(credits, slots, orders) ==
    IF slots = <<>> THEN <<>>
    ELSE SlotSerialize(slots[1])
             \o U64VarIntSerialize(Cardinality(DOMAIN credits[slots[1]]))
             \o SerializeCredits(credits[slots[1]], orders[slots[1]])
             \o SerializeSlots(credits, Tail(slots), orders)

\* for every slot, the orders in which its hash map may be iterated
OrdersOf(credits) ==
    {o \in [DOMAIN credits ->
              UNION {IterOrders(DOMAIN credits[s]) : s \in DOMAIN credits}] :
        \A s \in DOMAIN credits : o[s] \in IterOrders(DOMAIN credits[s])}

CreditsOrders(self) == OrdersOf(self.deferred_credits)

\* CreditsHeader that counts the slots of the range
CreditsHeaderOfRange(credits, slots) ==
    IF slots # <<>> THEN U64VarIntSerialize(Len(slots)) ELSE <<>>

\* the count header, written only when the range holds a slot
CreditsHeader(credits, slots) ==
    IF slots # <<>> THEN U64VarIntSerialize(Cardinality(DOMAIN credits)) ELSE <<>>

EmitCredits(credits, slots, orders) ==
    [part |-> CreditsHeader(credits, slots) \o SerializeSlots(credits, slots, orders),
     cursor |-> IF slots # <<>> THEN Some(Last(slots)) ELSE None]

\* returns (part, last_credits_slot)
get_deferred_credits_part(self, cursor, orders) ==
    EmitCredits(self.deferred_credits,
                SortedKeys(CreditsRange(self.deferred_credits, cursor)), orders)

(***************************************************************************)
(* set_deferred_credits_part                                               *)
(***************************************************************************)
ThenAmount(st) == IF ~st.ok THEN PFail ELSE Push(st, AmountDeserialize(st.rest))

\* tuple((address, amount))
CreditEntryParse(input) == ThenAmount(ThenAddress(Start(input)))

RECURSIVE CreditEntries(_, _)
CreditEntries(n, st) ==
    IF ~st.ok THEN PFail
    ELSE IF n = 0 THEN st
    ELSE CreditEntries(n - 1, Push(st, CreditEntryParse(st.rest)))

CreditsBody(n) == IF ~n.ok THEN PFail ELSE CreditEntries(n.val, Start(n.rest))

\* length_count(credits length, tuple((address, amount)))
CreditsParse(input) == CreditsBody(u64_deser(input))

ThenSlot(st, thread_count) ==
    IF ~st.ok THEN PFail ELSE Push(st, SlotDeserialize(st.rest, thread_count))

ThenCredits(st) == IF ~st.ok THEN PFail ELSE Push(st, CreditsParse(st.rest))

\* tuple((slot, credits))
SlotCreditsParse(input, thread_count) ==
    ThenCredits(ThenSlot(Start(input), thread_count))

RECURSIVE SlotEntries(_, _, _)
SlotEntries(n, st, thread_count) ==
    IF ~st.ok THEN PFail
    ELSE IF n = 0 THEN st
    ELSE SlotEntries(n - 1, Push(st, SlotCreditsParse(st.rest, thread_count)),
                     thread_count)

DeferredCreditsBody(n, thread_count) ==
    IF ~n.ok THEN PFail ELSE SlotEntries(n.val, Start(n.rest), thread_count)

DeferredCreditsParse(part, thread_count) ==
    DeferredCreditsBody(u64_deser(part), thread_count)

\* credits.into_iter().map(|(slot, credits)| (slot, collect())).collect()
RECURSIVE CollectCredits(_, _)
CollectCredits(m, entries) ==
    IF entries = <<>> THEN m
    ELSE CollectCredits(MapInsert(m, entries[1][1],
                                  ExtendRolls(EmptyMap, entries[1][2])),
                        Tail(entries))

\* LastKey that takes the first key of the map
LastKeyFirst(credits) ==
    IF DOMAIN credits = {} THEN None ELSE Some(MinKey(DOMAIN credits))

\* last_key_value().map(|(k, _)| *k)
LastKey(credits) ==
    IF DOMAIN credits = {} THEN None ELSE Some(MaxKey(DOMAIN credits))

CreditsOk(self, merged) ==
    SetResult("", LastKey(merged), [self EXCEPT !.deferred_credits = merged])

ApplyCreditsPart(self, p) ==
    IF ~p.ok THEN SetResult("DeserializeError", None, self)
    ELSE IF p.rest = <<>>
    THEN CreditsOk(self, nested_extend(self.deferred_credits,
                                       CollectCredits(EmptyMap, p.val)))
    ELSE SetResult("SerializeError", None, self)

set_deferred_credits_part(self, part) ==
    IF part = <<>> THEN SetResult("", None, self)
    ELSE ApplyCreditsPart(self, DeferredCreditsParse(part, THREAD_COUNT))

(***************************************************************************)
(* ProductionStats: two u64 counters, added with saturation by extend.     *)
(* is_satisfying adds them with the plain + of u64: on overflow a build    *)
(* with overflow checks panics and a build without them wraps.             *)
(***************************************************************************)
\* u64::saturating_add
u64_saturating_add(a, b) == IF a > U64_MAX - b THEN U64_MAX ELSE a + b

\* ProductionStats::extend
ProductionStats_extend(self, stats) ==
    ProductionStats(
        u64_saturating_add(self.block_success_count, stats.block_success_count),
        u64_saturating_add(self.block_failure_count, stats.block_failure_count))

\* a + b does not fit a u64
AddOverflows(a, b) == a > U64_MAX - b

\* a + b modulo 2^64 (here modulo U64_MAX + 1)
wrapping_add(a, b) == IF AddOverflows(a, b) THEN a - (U64_MAX - b) - 1 ELSE a + b

\* Ratio<u64> as <<numer, denom>>, denom > 0
Ratio(numer, denom) == <<numer, denom>>

\* &Ratio::new(numer, denom) <= max_miss_ratio, exact: numer * d <= n * denom
\* for max_miss_ratio = n / d, written with a floor so that no product
\* leaves the model's integers (the ratios of the model have n <= 1)
RatioLe(numer, denom, max_miss_ratio) ==
    numer <= (max_miss_ratio[1] * denom) \div max_miss_ratio[2]

\* is_satisfying once opportunities_count is known
Satisfying(self, opportunities_count, max_miss_ratio) ==
    IF opportunities_count = 0 THEN "true"
    ELSE IF RatioLe(self.block_failure_count, opportunities_count, max_miss_ratio)
    THEN "true"
    ELSE "false"

\* "true", "false" or "panic"; overflow_checks tells the build
is_satisfying(self, max_miss_ratio, overflow_checks) ==
    IF overflow_checks
          /\ AddOverflows(self.block_success_count, self.block_failure_count)
    THEN "panic"
    ELSE Satisfying(self,
                    wrapping_add(self.block_success_count, self.block_failure_count),
                    max_miss_ratio)

(***************************************************************************)
(* PoSChanges: seed_bits, roll_changes, production_stats, deferred_credits *)
(***************************************************************************)
PoSChanges(seed_bits, roll_changes, production_stats, deferred_credits) ==
    [seed_bits |-> seed_bits, roll_changes |-> roll_changes,
     production_stats |-> production_stats,
     deferred_credits |-> deferred_credits]

\* PoSChanges::default()
PoSChangesDefault == PoSChanges(<<>>, EmptyMap, EmptyMap, EmptyMap)

\* PoSChanges::is_empty
is_empty(self) ==
    /\ self.seed_bits = <<>>
    /\ DOMAIN self.roll_changes = {}
    /\ DOMAIN self.production_stats = {}
    /\ DOMAIN self.deferred_credits = {}

\* ExtendMap that keeps an entry m already has
ExtendMapKeepOld(m, other) ==
    [a \in (DOMAIN m) \cup (DOMAIN other) |->
        IF a \in DOMAIN m THEN m[a] ELSE other[a]]

\* HashMap::extend: every entry of other is inserted, replacing an old one
ExtendMap(m, other) ==
    [a \in (DOMAIN m) \cup (DOMAIN other) |->
        IF a \in DOMAIN other THEN other[a] ELSE m[a]]

\* StatsEntry that leaves a new address at the default counters
StatsEntryDefaultOnly(production_stats, other_addr, other_stats) ==
    IF other_addr \in DOMAIN production_stats
    THEN [production_stats EXCEPT
            ![other_addr] = ProductionStats_extend(@, other_stats)]
    ELSE MapInsert(production_stats, other_addr, ProductionStats(0, 0))

\* entry(other_addr).or_insert_with(ProductionStats::default).extend(&other_stats)
StatsEntry(production_stats, other_addr, other_stats) ==
    MapInsert(production_stats, other_addr,
              ProductionStats_extend(
                  IF other_addr \in DOMAIN production_stats
                  THEN production_stats[other_addr]
                  ELSE ProductionStats(0, 0),
                  other_stats))

\* for (other_addr, other_stats) in other.production_stats
RECURSIVE ExtendProductionStats(_, _, _)
ExtendProductionStats(production_stats, other, keys) ==
    IF keys = <<>> THEN production_stats
    ELSE ExtendProductionStats(StatsEntry(production_stats, keys[1], other[keys[1]]),
                               other, Tail(keys))

\* PoSChanges::extend; order is the iteration order of other.production_stats
PoSChanges_extend(self, other, order) ==
    PoSChanges(self.seed_bits \o other.seed_bits,
               ExtendMap(self.roll_changes, other.roll_changes),
               ExtendProductionStats(self.production_stats,
                                     other.production_stats, order),
               nested_extend(self.deferred_credits, other.deferred_credits))

(***************************************************************************)
(* PoSChangesSerializer: seed_bits, then each map as its length and its    *)
(* entries.  roll_changes, production_stats and the inner credit maps are  *)
(* hash maps, written in their iteration order; the slots are written in   *)
(* ascending order.                                                        *)
(***************************************************************************)
\* orders: the iteration orders of roll_changes, of production_stats and,
\* per slot, of the credits
PoSChangesSerialize(value, orders) ==
    BitVecSerialize(value.seed_bits)
        \o U64VarIntSerialize(Cardinality(DOMAIN value.roll_changes))
        \o SerializeRolls(value.roll_changes, orders.roll_changes)
        \o U64VarIntSerialize(Cardinality(DOMAIN value.production_stats))
        \o SerializeStats(value.production_stats, orders.production_stats)
        \o U64VarIntSerialize(Cardinality(DOMAIN value.deferred_credits))
        \o SerializeSlots(value.deferred_credits,
                          SortedKeys(DOMAIN value.deferred_credits), orders.credits)

ChangesOrders(value) ==
    [roll_changes : IterOrders(DOMAIN value.roll_changes),
     production_stats : IterOrders(DOMAIN value.production_stats),
     credits : OrdersOf(value.deferred_credits)]

(***************************************************************************)
(* PoSChangesDeserializer::new(thread_count): the four field deserializers *)
(* in a tuple, each list collected into its map.                           *)
(***************************************************************************)
\* RollChangesCollect that leaves out the entries whose value is 0
RollChangesCollectNonZero(r) ==
    IF ~r.ok THEN PFail
    ELSE POk([address \in {a \in DOMAIN ExtendRolls(EmptyMap, r.val) :
                               ExtendRolls(EmptyMap, r.val)[a] # 0}
                 |-> ExtendRolls(EmptyMap, r.val)[address]], r.rest)

\* .map(|elements| elements.into_iter().collect())
RollChangesCollect(r) ==
    IF ~r.ok THEN PFail ELSE POk(ExtendRolls(EmptyMap, r.val), r.rest)

\* RollChangesDeserializer::deserialize
RollChangesDeserialize(buffer) == RollChangesCollect(RollCountsParse(buffer))

ProductionStatsCollect(r) ==
    IF ~r.ok THEN PFail ELSE POk(ExtendStats(EmptyMap, r.val), r.rest)

\* ProductionStatsDeserializer::deserialize
ProductionStatsDeserialize(buffer) ==
    ProductionStatsCollect(ProductionStatsParse(buffer))

DeferredCreditsCollect(r) ==
    IF ~r.ok THEN PFail ELSE POk(CollectCredits(EmptyMap, r.val), r.rest)

\* DeferredCreditsDeserialize whose slot deserializer takes any thread
DeferredCreditsDeserializeAnyThread(buffer, thread_count) ==
    DeferredCreditsCollect(DeferredCreditsParse(buffer, 256))

\* DeferredCreditsDeserializer::deserialize, with CreditDeserializer inside
DeferredCreditsDeserialize(buffer, thread_count) ==
    DeferredCreditsCollect(DeferredCreditsParse(buffer, thread_count))

ThenRollChanges(st) ==
    IF ~st.ok THEN PFail ELSE Push(st, RollChangesDeserialize(st.rest))

ThenStatsMap(st) ==
    IF ~st.ok THEN PFail ELSE Push(st, ProductionStatsDeserialize(st.rest))

ThenDeferredCredits(st, thread_count) ==
    IF ~st.ok THEN PFail
    ELSE Push(st, DeferredCreditsDeserialize(st.rest, thread_count))

\* .map(|(seed_bits, roll_changes, production_stats, deferred_credits)| ...)
PoSChangesBuild(r) ==
    IF ~r.ok THEN PFail
    ELSE POk(PoSChanges(r.val[1], r.val[2], r.val[3], r.val[4]), r.rest)

\* PoSChangesDeserializer::deserialize
PoSChangesDeserialize(buffer, thread_count) ==
    PoSChangesBuild(ThenDeferredCredits(ThenStatsMap(ThenRollChanges(
        ThenBitVec(Start(buffer)))), thread_count))

(***************************************************************************)
(* State: a sender node and a receiver node, the two cursors the receiver  *)
(* threads through the get_*_part calls, and the last answer to each.      *)
(***************************************************************************)
VARIABLES
    sender,          \* PoSFinalState of the node that serves the bootstrap
    receiver,        \* PoSFinalState of the node that is bootstrapping
    cycle_cursor,    \* Option<u64> passed to the next get_cycle_history_part
    credits_cursor,  \* Option<Slot> passed to the next get_deferred_credits_part
    cycle_last,      \* Option of the last get_cycle_history_part answer
    credits_last,    \* Option of the last get_deferred_credits_part answer
    before,          \* the receiver as it was when the last set_*_part began
    last_op,         \* the last operation that ran on the receiver
    last_err,        \* the error kind of the last set_*_part ("" for Ok)
    last_ret,        \* the Option the last set_*_part returned (None on Err)
    redelivered,     \* how many parts were delivered a second time
    changes,         \* a PoSChanges that is extended, written and read back
    other,           \* Option of the argument of the last PoSChanges::extend
    prior,           \* changes as it was when the last extend began
    wire,            \* Option of the bytes PoSChangesSerializer wrote last
    decoded,         \* Option of what PoSChangesDeserializer read from wire
    judged,          \* Option of the last is_satisfying call and its result
    channel,         \* the events in the mpsc channel, oldest first
    senders,         \* how many Sender halves of the channel are alive
    sent,            \* how many events were sent; event k is the k-th sent
    taken,           \* the events wait_event returned, in call order
    rx,              \* where the event receiver is: open, draining, returned
    remaining_events,\* the VecDeque drain is filling, then its result
    wait_ret         \* Option of the Result of the last wait_event

\* the nodes of a bootstrap
boot_vars == <<sender, receiver, cycle_cursor, credits_cursor, cycle_last,
               credits_last, before, last_op, last_err, last_ret, redelivered>>

\* a PoSChanges under extend and its codec
changes_vars == <<changes, other, prior, wire, decoded, judged>>

\* the event channel and its receiver
channel_vars == <<channel, senders, sent, taken, rx, remaining_events, wait_ret>>

vars == <<boot_vars, changes_vars, channel_vars>>

(***************************************************************************)
(* The sender states the bootstrap is run against.  A history is a run of  *)
(* consecutive cycles, all complete but possibly the newest, at most       *)
(* HISTORY_LENGTH long.                                                    *)
(***************************************************************************)
Rolls(k) ==
    CASE k = 0 -> MapInsert(EmptyMap, A1, 1)
      [] k = 1 -> MapInsert(MapInsert(EmptyMap, A2, 3), A1, 200)
      [] k = 2 -> EmptyMap

Seed(k) ==
    CASE k = 0 -> <<1, 0, 1>>
      [] k = 1 -> <<>>
      [] k = 2 -> <<1, 1, 0, 0, 0, 0, 0, 0, 1>>

Stats(k) ==
    CASE k = 0 -> EmptyMap
      [] k = 1 -> MapInsert(MapInsert(EmptyMap, A1, ProductionStats(3, 1)),
                            A2, ProductionStats(0, 2))
      [] k = 2 -> MapInsert(EmptyMap, A2, ProductionStats(130, 0))

History(base, n, shift, back_complete) ==
    [i \in 1..n |->
        CycleInfo(base + i - 1, (i < n) \/ back_complete,
                  Rolls((i + shift) % 3), Seed((i + shift) % 3),
                  Stats((i + shift) % 3))]

BootHistories ==
    {History(base, n, shift, bc) :
        base \in {0, 125}, n \in 0..HISTORY_LENGTH, shift \in 0..2, bc \in BOOLEAN}

Restrict(m, S) == [x \in S |-> m[x]]

CreditsA ==
    MapInsert(MapInsert(MapInsert(EmptyMap,
        Slot(1, 0), MapInsert(EmptyMap, A1, 5)),
        Slot(1, THREAD_COUNT - 1), MapInsert(MapInsert(EmptyMap, A1, 200), A2, 7)),
        Slot(130, 0), MapInsert(EmptyMap, A2, 0))

CreditsB ==
    MapInsert(MapInsert(EmptyMap,
        Slot(2, 0), MapInsert(EmptyMap, A2, AMOUNT_MAX)),
        Slot(3, 0), EmptyMap)

BootCredits ==
    {Restrict(CreditsA, S) : S \in SUBSET (DOMAIN CreditsA)}
        \cup {Restrict(CreditsB, S) : S \in SUBSET (DOMAIN CreditsB)}

\* no PoSChanges is at work
InitNoChanges ==
    /\ changes = PoSChangesDefault
    /\ other = None
    /\ prior = PoSChangesDefault
    /\ wire = None
    /\ decoded = None
    /\ judged = None

\* no event channel is open
InitNoChannel ==
    /\ channel = <<>>
    /\ senders = 0
    /\ sent = 0
    /\ taken = <<>>
    /\ rx = "none"
    /\ remaining_events = <<>>
    /\ wait_ret = None

InitReceiver ==
    /\ receiver = PoSFinalState(<<>>, EmptyMap)
    /\ cycle_cursor = None
    /\ credits_cursor = None
    /\ cycle_last = None
    /\ credits_last = None
    /\ before = receiver
    /\ last_op = "new"
    /\ last_err = ""
    /\ last_ret = None
    /\ redelivered = 0

InitBoot ==
    /\ sender \in {PoSFinalState(h, c) : h \in BootHistories, c \in BootCredits}
    /\ InitReceiver
    /\ InitNoChanges
    /\ InitNoChannel

(***************************************************************************)
(* One poll of the cycle history: get_cycle_history_part on the sender     *)
(* with the threaded cursor, set_cycle_history_part on the receiver with   *)
(* the returned bytes; the returned cursor is kept for the next poll.      *)
(***************************************************************************)
\* the receiver's side of any call of set_*_part with result res
Applied(res, op) ==
    /\ receiver' = res.state
    /\ before' = receiver
    /\ last_err' = res.err
    /\ last_ret' = res.ret
    /\ last_op' = op
    /\ UNCHANGED <<changes_vars, channel_vars>>

CyclePolled(got) ==
    /\ cycle_last' = Some(got)
    /\ cycle_cursor' = got.cursor
    /\ Applied(set_cycle_history_part(receiver, got.part), "PollCycleHistory")
    /\ UNCHANGED <<sender, credits_cursor, credits_last, redelivered>>

PollCycleHistory ==
    \E order \in StatsOrders(sender, cycle_cursor) :
        CyclePolled(get_cycle_history_part(sender, cycle_cursor, order))

\* the sender answered (empty, _, Some(false)): the cycle-history loop ends
CycleDone ==
    /\ IsSome(cycle_last)
    /\ Unwrap(cycle_last).part = <<>>
    /\ Unwrap(cycle_last).complete = Some(FALSE)

(***************************************************************************)
(* One poll of the deferred credits; the loop ends at the first empty      *)
(* part.                                                                   *)
(***************************************************************************)
CreditsPolled(got) ==
    /\ credits_last' = Some(got)
    /\ credits_cursor' = got.cursor
    /\ Applied(set_deferred_credits_part(receiver, got.part), "PollDeferredCredits")
    /\ UNCHANGED <<sender, cycle_cursor, cycle_last, redelivered>>

PollDeferredCredits ==
    \E orders \in CreditsOrders(sender) :
        CreditsPolled(get_deferred_credits_part(sender, credits_cursor, orders))

CreditsDone ==
    /\ IsSome(credits_last)
    /\ Unwrap(credits_last).part = <<>>

BootPollCycleHistory == ~CycleDone /\ PollCycleHistory

BootPollDeferredCredits == ~CreditsDone /\ PollDeferredCredits

NextBoot == BootPollCycleHistory \/ BootPollDeferredCredits

\* the bootstrap loops against a sender that does not change
SpecBoot == InitBoot /\ [][NextBoot]_vars

(***************************************************************************)
(* The sender's own life while it serves a bootstrap: seed bits are        *)
(* appended to the newest cycle, the cycle is marked complete, the next    *)
(* cycle is pushed, and the oldest is evicted when the history is full.    *)
(***************************************************************************)
SenderOnly ==
    UNCHANGED <<receiver, cycle_cursor, credits_cursor, cycle_last,
                credits_last, before, last_op, last_err, last_ret, redelivered,
                changes_vars, channel_vars>>

\* the seed bits held by a history, all cycles together
RECURSIVE SeedBits(_)
SeedBits(history) ==
    IF history = <<>> THEN 0
    ELSE Len(history[1].rng_seed) + SeedBits(Tail(history))

SetBack(history, info) == [history EXCEPT ![Len(history)] = info]

SenderAppendSeed ==
    /\ Len(sender.cycle_history) > 0
    /\ ~Last(sender.cycle_history).complete
    /\ SeedBits(sender.cycle_history) < MaxSeedBits
    /\ \E bit \in {0, 1} :
          sender' = [sender EXCEPT !.cycle_history =
                        SetBack(@, [Last(@) EXCEPT !.rng_seed = Append(@, bit)])]
    /\ SenderOnly

SenderCompleteCycle ==
    /\ Len(sender.cycle_history) > 0
    /\ ~Last(sender.cycle_history).complete
    /\ sender' = [sender EXCEPT !.cycle_history =
                     SetBack(@, [Last(@) EXCEPT !.complete = TRUE])]
    /\ SenderOnly

\* the next cycle: its number follows the newest, the rolls are carried over
NextCycleInfo(history) ==
    IF Len(history) = 0
    THEN CycleInfo(0, FALSE, Rolls(0), <<>>, EmptyMap)
    ELSE CycleInfo(Last(history).cycle + 1, FALSE, Last(history).roll_counts,
                   <<>>, EmptyMap)

PushEvict(history, info) ==
    IF Len(history) >= HISTORY_LENGTH
    THEN Append(Tail(history), info)
    ELSE Append(history, info)

SenderPushCycle ==
    /\ IF Len(sender.cycle_history) = 0 THEN TRUE
       ELSE /\ Last(sender.cycle_history).complete
            /\ Last(sender.cycle_history).cycle < MaxCycle
    /\ sender' = [sender EXCEPT !.cycle_history = PushEvict(@, NextCycleInfo(@))]
    /\ SenderOnly

InitLive ==
    /\ sender = PoSFinalState(<<>>, EmptyMap)
    /\ InitReceiver
    /\ InitNoChanges
    /\ InitNoChannel

NextLive ==
    \/ PollCycleHistory
    \/ SenderAppendSeed
    \/ SenderCompleteCycle
    \/ SenderPushCycle

\* the cycle-history bootstrap against a sender that keeps advancing
SpecLive == InitLive /\ [][NextLive]_vars

(***************************************************************************)
(* Deliveries that go wrong: a part is applied a second time, or the       *)
(* bytes handed to set_*_part are not the bytes the sender wrote.          *)
(***************************************************************************)
ReceiverOnly ==
    UNCHANGED <<sender, cycle_cursor, credits_cursor, cycle_last, credits_last>>

RedeliverCycleHistory ==
    /\ IsSome(cycle_last)
    /\ Unwrap(cycle_last).part # <<>>
    /\ redelivered < MaxRedeliver
    /\ Applied(set_cycle_history_part(receiver, Unwrap(cycle_last).part),
               "RedeliverCycleHistory")
    /\ redelivered' = redelivered + 1
    /\ ReceiverOnly

RedeliverDeferredCredits ==
    /\ IsSome(credits_last)
    /\ Unwrap(credits_last).part # <<>>
    /\ redelivered < MaxRedeliver
    /\ Applied(set_deferred_credits_part(receiver, Unwrap(credits_last).part),
               "RedeliverDeferredCredits")
    /\ redelivered' = redelivered + 1
    /\ ReceiverOnly

\* a part cut short, or followed by one more byte
Damaged(part) ==
    IF part = <<>> THEN {}
    ELSE {Take(part, k) : k \in {1, Len(part) \div 2, Len(part) - 1} \ {0}}
            \cup {part \o <<0>>}

\* a complete tag that is neither 0 nor 1; seed bits with non-zero padding
BadCycleParts ==
    {<<7, 2, 0, 0, 0>>, <<7, 1, 0, 3, 255, 0>>}

\* a thread out of range, alone and after a well-formed slot; an amount
\* above Amount::MAX
BadCreditsParts ==
    {<<1>> \o SlotSerialize(Slot(1, THREAD_COUNT)) \o <<0>>,
     <<2>> \o SlotSerialize(Slot(1, 0)) \o <<1>> \o to_bytes(A1) \o <<5>>
          \o SlotSerialize(Slot(2, THREAD_COUNT)) \o <<0>>,
     <<1>> \o SlotSerialize(Slot(1, 0)) \o <<1>> \o to_bytes(A2)
          \o AmountSerialize(AMOUNT_MAX + 1)}

\* a well-formed part no sender writes: a count of zero slots
UnwrittenCreditsParts == {<<0>>}

LastPart(last) == IF IsSome(last) THEN Unwrap(last).part ELSE <<>>

CorruptCycleHistory ==
    /\ \E order \in StatsOrders(sender, cycle_cursor) :
       \E input \in Damaged(get_cycle_history_part(sender, cycle_cursor, order).part)
                      \cup Damaged(LastPart(cycle_last)) \cup BadCycleParts :
          Applied(set_cycle_history_part(receiver, input), "CorruptCycleHistory")
    /\ ReceiverOnly
    /\ UNCHANGED redelivered

CorruptDeferredCredits ==
    /\ \E orders \in CreditsOrders(sender) :
       \E input \in Damaged(get_deferred_credits_part(sender, credits_cursor, orders).part)
                      \cup Damaged(LastPart(credits_last)) \cup BadCreditsParts
                      \cup UnwrittenCreditsParts :
          Applied(set_deferred_credits_part(receiver, input), "CorruptDeferredCredits")
    /\ ReceiverOnly
    /\ UNCHANGED redelivered

SetHistories ==
    {History(125, n, shift, bc) :
        n \in {2, HISTORY_LENGTH}, shift \in {0, 1}, bc \in BOOLEAN}

InitSet ==
    /\ sender \in {PoSFinalState(h, c) : h \in SetHistories, c \in {CreditsA, CreditsB}}
    /\ InitReceiver
    /\ InitNoChanges
    /\ InitNoChannel

NextSet ==
    \/ BootPollCycleHistory
    \/ BootPollDeferredCredits
    \/ RedeliverCycleHistory
    \/ RedeliverDeferredCredits
    \/ CorruptCycleHistory
    \/ CorruptDeferredCredits

\* the bootstrap of a constant sender over a channel that repeats and
\* damages parts
SpecSet == InitSet /\ [][NextSet]_vars

(***************************************************************************)
(* Properties of the bootstrap of a constant sender (SpecBoot).            *)
(***************************************************************************)
\* the sender's history from first_cycle_index onward: all of it, or all
\* but the oldest entry when the history is full
StreamedHistory(history) ==
    IF Len(history) >= HISTORY_LENGTH THEN Tail(history) ELSE history

\* C1: once the sender of a constant state has answered (empty, _,
\* Some(false)), the receiver's cycle_history equals, entry by entry, the
\* sender's cycle_history from first_cycle_index onward.
C1_CycleHistoryConvergence ==
    CycleDone => receiver.cycle_history = StreamedHistory(sender.cycle_history)

\* a full history of 2-byte cycle numbers was streamed without its oldest
\* entry and the loop has ended
C1_Witness ==
    /\ CycleDone
    /\ Len(sender.cycle_history) = HISTORY_LENGTH
    /\ sender.cycle_history[1].cycle = 125
    /\ ~Last(sender.cycle_history).complete
    /\ Len(receiver.cycle_history) = HISTORY_LENGTH - 1
    /\ receiver.cycle_history[1].cycle = 126

\* C7: once get_deferred_credits_part has answered an empty part to the
\* threaded cursor, the receiver's deferred_credits equal the constant
\* sender's: same slots, same addresses, same amounts.
C7_DeferredCreditsConvergence ==
    CreditsDone => receiver.deferred_credits = sender.deferred_credits

\* three slots, one of them with two addresses, were transferred and the
\* loop has ended
C7_Witness ==
    /\ CreditsDone
    /\ sender.deferred_credits = CreditsA
    /\ Cardinality(DOMAIN receiver.deferred_credits) = 3
    /\ last_err = ""

(***************************************************************************)
(* Properties of set_*_part under redelivery and damaged input (SpecSet).  *)
(***************************************************************************)
\* C2: applying set_cycle_history_part a second time with the same
\* non-empty payload leaves the PoS state as the first application left it.
C2_SetCycleHistoryIdempotent ==
    (last_op = "RedeliverCycleHistory" /\ last_err = "") => receiver = before

\* C8: applying the same non-empty part of get_deferred_credits_part a
\* second time with set_deferred_credits_part changes no amount: the
\* receiver's deferred_credits stay as the first application left them.
C8_SetDeferredCreditsIdempotent ==
    (last_op = "RedeliverDeferredCredits" /\ last_err = "")
        => receiver.deferred_credits = before.deferred_credits

\* C9: whenever set_cycle_history_part or set_deferred_credits_part returns
\* an error, cycle_history and deferred_credits are what they were before
\* the call.
C9_FailureLeavesStateUntouched ==
    last_err # "" => receiver = before

\* a well-formed cycle followed by one more byte was refused by a receiver
\* that already holds cycles and credits
C9_Witness ==
    /\ last_err = "SerializeError"
    /\ last_op = "CorruptCycleHistory"
    /\ Len(receiver.cycle_history) > 0
    /\ DOMAIN receiver.deferred_credits # {}

(***************************************************************************)
(* Properties of the receiver's history while the sender advances          *)
(* (SpecLive).                                                             *)
(***************************************************************************)
IsPrefix(s, t) == Len(s) <= Len(t) /\ s = Take(t, Len(s))

\* the receiver holds the sender's newest cycle as it was when incomplete,
\* its cursor names that cycle, and the sender's copy has grown since
GrownSinceLastPoll ==
    /\ Len(sender.cycle_history) > 0
    /\ Len(receiver.cycle_history) > 0
    /\ cycle_cursor = Some(Last(sender.cycle_history).cycle)
    /\ Last(receiver.cycle_history).cycle = Last(sender.cycle_history).cycle
    /\ ~Last(receiver.cycle_history).complete
    /\ IsPrefix(Last(receiver.cycle_history).rng_seed,
                Last(sender.cycle_history).rng_seed)
    /\ \/ Last(receiver.cycle_history).rng_seed # Last(sender.cycle_history).rng_seed
       \/ Last(sender.cycle_history).complete

\* C3: a poll taken after the sender's newest incomplete cycle has grown
\* leaves the receiver's newest cycle with that cycle number, the sender's
\* whole rng_seed (the bits received before followed by the new ones) and
\* the sender's latest complete flag.
C3_MergeIntoBack ==
    [][(GrownSinceLastPoll /\ PollCycleHistory)
          => /\ Last(receiver'.cycle_history).cycle = Last(sender.cycle_history).cycle
             /\ Last(receiver'.cycle_history).rng_seed
                    = Last(sender.cycle_history).rng_seed
             /\ Last(receiver'.cycle_history).complete
                    = Last(sender.cycle_history).complete]_vars

\* C4: the receiver's cycle_history is ordered strictly ascending by cycle,
\* so no cycle number occurs twice.
C4_ReceiverCyclesAscending ==
    \A i \in 1..(Len(receiver.cycle_history) - 1) :
        receiver.cycle_history[i].cycle < receiver.cycle_history[i + 1].cycle

\* the receiver went on after the sender evicted the cycle its cursor named
C4_Witness ==
    /\ Len(receiver.cycle_history) >= 3
    /\ Len(sender.cycle_history) = HISTORY_LENGTH
    /\ sender.cycle_history[1].cycle > receiver.cycle_history[1].cycle
    /\ Last(receiver.cycle_history).cycle = Last(sender.cycle_history).cycle

\* C5: consecutive entries of the receiver's cycle_history have consecutive
\* cycle numbers.
C5_ReceiverCyclesContiguous ==
    \A i \in 1..(Len(receiver.cycle_history) - 1) :
        receiver.cycle_history[i + 1].cycle = receiver.cycle_history[i].cycle + 1

\* C6: every entry of the receiver's cycle_history other than the last is
\* complete.
C6_OnlyBackIncomplete ==
    \A i \in 1..(Len(receiver.cycle_history) - 1) :
        receiver.cycle_history[i].complete

\* C10: the receiver never retains more than history_length cycles.
C10_ReceiverHistoryBounded ==
    Len(receiver.cycle_history) <= HISTORY_LENGTH

\* the cursor names the last entry of the sender's cycle_history
CursorAtNewest ==
    /\ IsSome(cycle_cursor)
    /\ Len(sender.cycle_history) > 0
    /\ Unwrap(cycle_cursor) = Last(sender.cycle_history).cycle

\* C11: a poll whose cursor names the sender's newest cycle is answered
\* (empty, the same cursor, Some(false)) whatever that cycle's complete flag
\* and seed are by now, and leaves the receiver as it was.
C11_CursorAtNewestAnswersEmpty ==
    [][(CursorAtNewest /\ PollCycleHistory)
          => /\ cycle_last' = Some(GetResult(<<>>, cycle_cursor, Some(FALSE)))
             /\ cycle_cursor' = cycle_cursor
             /\ receiver' = receiver]_vars

\* the newest cycle was completed and got a seed bit after its transfer,
\* and the poll with its number as cursor was answered empty
C11_Witness ==
    /\ CursorAtNewest
    /\ cycle_last = Some(GetResult(<<>>, cycle_cursor, Some(FALSE)))
    /\ Last(sender.cycle_history).complete
    /\ Len(Last(sender.cycle_history).rng_seed) > 0
    /\ Last(receiver.cycle_history).cycle = Unwrap(cycle_cursor)
    /\ ~Last(receiver.cycle_history).complete
    /\ Last(receiver.cycle_history).rng_seed = <<>>

(***************************************************************************)
(* A receiver that resumes a bootstrap: it holds the cycle its cursor      *)
(* names, and the sender it now polls may hold that cycle or not.          *)
(***************************************************************************)
\* cycle numbers a resuming receiver may name: in or out of BootHistories
ResumeCursors == {2, 124, 127, 200}

ResumedHistory(cursor) ==
    IF IsSome(cursor)
    THEN <<CycleInfo(Unwrap(cursor), TRUE, Rolls(0), <<>>, EmptyMap)>>
    ELSE <<>>

InitResume ==
    /\ sender \in {PoSFinalState(h, EmptyMap) : h \in BootHistories}
    /\ cycle_cursor \in {None} \cup {Some(c) : c \in ResumeCursors}
    /\ receiver = PoSFinalState(ResumedHistory(cycle_cursor), EmptyMap)
    /\ credits_cursor = None
    /\ cycle_last = None
    /\ credits_last = None
    /\ before = receiver
    /\ last_op = "new"
    /\ last_err = ""
    /\ last_ret = None
    /\ redelivered = 0
    /\ InitNoChanges
    /\ InitNoChannel

NextResume == PollCycleHistory

SpecResume == InitResume /\ [][NextResume]_vars

\* the cursor names a cycle the sender's non-empty history does not hold
CursorOutdated ==
    /\ IsSome(cycle_cursor)
    /\ Len(sender.cycle_history) > 0
    /\ \A i \in 1..Len(sender.cycle_history) :
          sender.cycle_history[i].cycle # Unwrap(cycle_cursor)

\* the entry at first_cycle_index: the second when the history holds at
\* least history_length cycles, else the first
RestartEntry ==
    sender.cycle_history[IF Len(sender.cycle_history) >= HISTORY_LENGTH
                         THEN 2 ELSE 1]

\* C12: a poll with an outdated cursor emits the entry at first_cycle_index
\* (a non-empty part the receiver pushes at its back) and returns that
\* entry's cycle as the next cursor.
C12_OutdatedCursorRestarts ==
    [][(CursorOutdated /\ PollCycleHistory)
          => /\ Unwrap(cycle_last').part # <<>>
             /\ cycle_cursor' = Some(RestartEntry.cycle)
             /\ last_err' = ""
             /\ Last(receiver'.cycle_history) = RestartEntry]_vars

\* the receiver's cycle was not in the sender's full history and the poll
\* gave it the sender's second entry
C12_Witness ==
    /\ last_op = "PollCycleHistory"
    /\ Len(before.cycle_history) = 1
    /\ Len(sender.cycle_history) = HISTORY_LENGTH
    /\ \A i \in 1..HISTORY_LENGTH :
          sender.cycle_history[i].cycle # before.cycle_history[1].cycle
    /\ Len(receiver.cycle_history) = 2
    /\ receiver.cycle_history[2] = sender.cycle_history[2]
    /\ cycle_cursor = Some(sender.cycle_history[2].cycle)

\* a well-formed part followed by one more byte
WithTrailingByte(part) == part \o <<0>>

\* C13: set_cycle_history_part and set_deferred_credits_part fail with a
\* DeserializeError when their input is a well-formed payload followed by
\* at least one extra byte.
C13_TrailingBytesDeserializeError ==
    /\ (IsSome(cycle_last) /\ Unwrap(cycle_last).part # <<>>)
          => set_cycle_history_part(
                 receiver, WithTrailingByte(Unwrap(cycle_last).part)).err
                = "DeserializeError"
    /\ (IsSome(credits_last) /\ Unwrap(credits_last).part # <<>>)
          => set_deferred_credits_part(
                 receiver, WithTrailingByte(Unwrap(credits_last).part)).err
                = "DeserializeError"

\* the last operation was a set_deferred_credits_part that returned Ok
CreditsCallOk ==
    /\ last_op \in {"PollDeferredCredits", "RedeliverDeferredCredits",
                    "CorruptDeferredCredits"}
    /\ last_err = ""

\* the part of that call was empty
EmptyCreditsPart ==
    /\ last_op = "PollDeferredCredits"
    /\ Unwrap(credits_last).part = <<>>

SlotBefore(s, t) == s[1] < t[1] \/ (s[1] = t[1] /\ s[2] < t[2])

\* the largest slot of a map, None for the empty map
LargestSlot(credits) ==
    IF DOMAIN credits = {} THEN None
    ELSE Some(CHOOSE s \in DOMAIN credits :
                 \A t \in DOMAIN credits : t = s \/ SlotBefore(t, s))

\* C14, as stated: every successful set_deferred_credits_part returns the
\* largest slot of the receiver's deferred_credits after the call, and None
\* only if that map is empty.
C14_ReturnsLargestSlot ==
    CreditsCallOk => last_ret = LargestSlot(receiver.deferred_credits)

\* C14, amended: a successful call with a non-empty part returns the
\* largest slot of the receiver's map after the call (None only if the map
\* is empty); a call with an empty part returns None and changes nothing,
\* whatever the map holds.
C14_ReturnsLargestSlotUnlessEmptyPart ==
    CreditsCallOk =>
        IF EmptyCreditsPart
        THEN last_ret = None /\ receiver = before
        ELSE last_ret = LargestSlot(receiver.deferred_credits)

\* an empty part was applied to a receiver that holds three slots, and the
\* call returned None
C14_Witness ==
    /\ CreditsCallOk
    /\ EmptyCreditsPart
    /\ Cardinality(DOMAIN receiver.deferred_credits) = 3
    /\ last_ret = None

(***************************************************************************)
(* A PoSChanges at work: it is extended with other PoSChanges, written by  *)
(* PoSChangesSerializer and read back by PoSChangesDeserializer, and the   *)
(* production statistics it holds are judged by is_satisfying.             *)
(***************************************************************************)
ChangesA ==
    PoSChanges(<<1, 0, 1>>,
               MapInsert(MapInsert(EmptyMap, A1, 3), A2, 0),
               MapInsert(EmptyMap, A1, ProductionStats(3, 1)),
               MapInsert(EmptyMap, Slot(1, 0), MapInsert(EmptyMap, A1, 10)))

ChangesB ==
    PoSChanges(<<0, 1, 1, 0>>,
               MapInsert(EmptyMap, A1, 0),
               MapInsert(MapInsert(EmptyMap, A1, ProductionStats(0, 2)),
                         A2, ProductionStats(U64_MAX, 1)),
               MapInsert(MapInsert(EmptyMap,
                   Slot(1, 0), MapInsert(MapInsert(EmptyMap, A1, 5), A2, 7)),
                   Slot(2, THREAD_COUNT - 1), MapInsert(EmptyMap, A2, 1)))

ChangesC ==
    PoSChanges(<<1, 1, 0, 0, 0, 0, 0, 0, 1>>,
               MapInsert(EmptyMap, A2, 200),
               MapInsert(EmptyMap, A2, ProductionStats(U64_MAX - 1, U64_MAX)),
               MapInsert(MapInsert(EmptyMap,
                   Slot(1, 0), MapInsert(EmptyMap, A1, AMOUNT_MAX - 3)),
                   Slot(130, 0), EmptyMap))

ChangesPool == {PoSChangesDefault, ChangesA, ChangesB, ChangesC}

\* max_miss_ratio values
Ratios == {Ratio(0, 1), Ratio(1, 3), Ratio(1, 2), Ratio(1, 1)}

InitChanges ==
    /\ sender = PoSFinalState(<<>>, EmptyMap)
    /\ InitReceiver
    /\ changes \in ChangesPool
    /\ other = None
    /\ prior = changes
    /\ wire = None
    /\ decoded = None
    /\ judged = None
    /\ InitNoChannel

\* self.extend(other)
ExtendChanges ==
    /\ \E o \in ChangesPool :
       \E order \in IterOrders(DOMAIN o.production_stats) :
          /\ Len(changes.seed_bits) + Len(o.seed_bits) <= MaxChangeBits
          /\ changes' = PoSChanges_extend(changes, o, order)
          /\ other' = Some(o)
    /\ prior' = changes
    /\ wire' = None
    /\ decoded' = None
    /\ judged' = None
    /\ UNCHANGED <<boot_vars, channel_vars>>

\* PoSChangesSerializer::serialize(&changes, &mut buffer)
SerializeChanges ==
    /\ \E orders \in ChangesOrders(changes) :
          wire' = Some(PoSChangesSerialize(changes, orders))
    /\ decoded' = None
    /\ UNCHANGED <<changes, other, prior, judged, boot_vars, channel_vars>>

\* PoSChangesDeserializer::new(thread_count).deserialize(&buffer)
DeserializeChanges ==
    /\ IsSome(wire)
    /\ decoded' = Some(PoSChangesDeserialize(Unwrap(wire), THREAD_COUNT))
    /\ UNCHANGED <<changes, other, prior, wire, judged, boot_vars, channel_vars>>

Judged(stats, max_miss_ratio, result) ==
    [stats |-> stats, max_miss_ratio |-> max_miss_ratio, result |-> result]

\* production_stats[addr].is_satisfying(&max_miss_ratio), in either build
JudgeStats ==
    /\ \E addr \in DOMAIN changes.production_stats :
       \E max_miss_ratio \in Ratios :
       \E overflow_checks \in BOOLEAN :
          judged' = Some(Judged(changes.production_stats[addr], max_miss_ratio,
                                is_satisfying(changes.production_stats[addr],
                                              max_miss_ratio, overflow_checks)))
    /\ UNCHANGED <<changes, other, prior, wire, decoded, boot_vars, channel_vars>>

NextChanges ==
    \/ ExtendChanges
    \/ SerializeChanges
    \/ DeserializeChanges
    \/ JudgeStats

SpecChanges == InitChanges /\ [][NextChanges]_vars

(***************************************************************************)
(* Properties of PoSChanges and ProductionStats (SpecChanges).             *)
(***************************************************************************)
\* opportunities = success + failure is 0, or failure / opportunities <=
\* n / d as exact rationals: failure * d <= n * (success + failure), that
\* is failure * (d - n) <= n * success, written with a floor so that no
\* sum or product leaves the model's integers
ExactlySatisfying(stats, max_miss_ratio) ==
    \/ stats.block_success_count = 0 /\ stats.block_failure_count = 0
    \/ IF max_miss_ratio[2] = max_miss_ratio[1] THEN TRUE
       ELSE stats.block_failure_count
               <= (max_miss_ratio[1] * stats.block_success_count)
                     \div (max_miss_ratio[2] - max_miss_ratio[1])

\* C15: is_satisfying returns true if opportunities is 0 or the exact
\* rational failure / opportunities is <= max_miss_ratio, false otherwise,
\* for all counter values up to u64::MAX; it never panics or wraps.
C15_IsSatisfyingExact ==
    IsSome(judged) =>
        Unwrap(judged).result =
            (IF ExactlySatisfying(Unwrap(judged).stats, Unwrap(judged).max_miss_ratio)
             THEN "true" ELSE "false")

\* the credits of one slot after merging what both sides hold for it
MergedSlot(mine, theirs) ==
    [address \in DOMAIN mine \cup DOMAIN theirs |->
        IF address \notin DOMAIN mine THEN theirs[address]
        ELSE IF address \notin DOMAIN theirs THEN mine[address]
        ELSE IF mine[address] + theirs[address] >= AMOUNT_MAX THEN AMOUNT_MAX
        ELSE mine[address] + theirs[address]]

\* C16: after self.nested_extend(other) the slots of self are its former
\* slots and those of other; a slot self did not hold has other's inner map
\* verbatim; in a slot both hold, an address present on both sides has the
\* sum of the two amounts capped at Amount::MAX, and an address present on
\* one side keeps that side's amount.
C16_NestedExtendMerges ==
    IsSome(other) =>
        LET mine == prior.deferred_credits
            theirs == Unwrap(other).deferred_credits
            merged == changes.deferred_credits
        IN /\ DOMAIN merged = DOMAIN mine \cup DOMAIN theirs
           /\ \A slot \in DOMAIN merged :
                merged[slot] =
                    IF slot \notin DOMAIN mine THEN theirs[slot]
                    ELSE IF slot \notin DOMAIN theirs THEN mine[slot]
                    ELSE MergedSlot(mine[slot], theirs[slot])

\* a merge with a slot only other holds, and a slot both hold in which one
\* address sums past Amount::MAX and another is new
C16_Witness ==
    /\ IsSome(other)
    /\ \E slot \in DOMAIN Unwrap(other).deferred_credits :
          slot \notin DOMAIN prior.deferred_credits
    /\ \E slot \in DOMAIN Unwrap(other).deferred_credits \cap DOMAIN prior.deferred_credits :
          LET mine == prior.deferred_credits[slot]
              theirs == Unwrap(other).deferred_credits[slot]
          IN /\ \E address \in DOMAIN mine \cap DOMAIN theirs :
                  /\ mine[address] + theirs[address] > AMOUNT_MAX
                  /\ changes.deferred_credits[slot][address] = AMOUNT_MAX
             /\ \E address \in DOMAIN theirs : address \notin DOMAIN mine

\* a + b capped at u64::MAX, without forming a sum above it
CappedSum(a, b) == IF a >= U64_MAX - b THEN U64_MAX ELSE a + b

\* the counters of an address, (0, 0) when the map has none
StatsOrZero(production_stats, address) ==
    IF address \in DOMAIN production_stats THEN production_stats[address]
    ELSE ProductionStats(0, 0)

\* C17: after self.extend(other), seed_bits is self's old bits followed by
\* other's bits; roll_changes holds other's value for every address of
\* other (a 0 marker included and kept) and self's old value for the
\* addresses only self has; production_stats holds per address the
\* saturating sums of both success and both failure counters, an absent
\* side counting as (0, 0); deferred_credits is the nested_extend of both.
C17_ExtendMergesFields ==
    IsSome(other) =>
        LET o == Unwrap(other)
        IN /\ Len(changes.seed_bits) = Len(prior.seed_bits) + Len(o.seed_bits)
           /\ \A i \in 1..Len(prior.seed_bits) :
                changes.seed_bits[i] = prior.seed_bits[i]
           /\ \A i \in 1..Len(o.seed_bits) :
                changes.seed_bits[Len(prior.seed_bits) + i] = o.seed_bits[i]
           /\ DOMAIN changes.roll_changes
                 = DOMAIN prior.roll_changes \cup DOMAIN o.roll_changes
           /\ \A address \in DOMAIN o.roll_changes :
                changes.roll_changes[address] = o.roll_changes[address]
           /\ \A address \in DOMAIN prior.roll_changes \ DOMAIN o.roll_changes :
                changes.roll_changes[address] = prior.roll_changes[address]
           /\ DOMAIN changes.production_stats
                 = DOMAIN prior.production_stats \cup DOMAIN o.production_stats
           /\ \A address \in DOMAIN changes.production_stats :
                LET mine == StatsOrZero(prior.production_stats, address)
                    theirs == StatsOrZero(o.production_stats, address)
                IN changes.production_stats[address] =
                      ProductionStats(
                          CappedSum(mine.block_success_count,
                                    theirs.block_success_count),
                          CappedSum(mine.block_failure_count,
                                    theirs.block_failure_count))
           /\ changes.deferred_credits
                 = nested_extend(prior.deferred_credits, o.deferred_credits)

\* an extend in which a 0 marker replaced a non-zero roll count and stayed
\* in the map, an address kept the count only self had, an address had
\* counters on other's side only, and both sides brought seed bits
C17_Witness ==
    /\ IsSome(other)
    /\ prior.seed_bits # <<>>
    /\ Unwrap(other).seed_bits # <<>>
    /\ \E address \in DOMAIN prior.roll_changes \cap DOMAIN Unwrap(other).roll_changes :
          /\ prior.roll_changes[address] # 0
          /\ Unwrap(other).roll_changes[address] = 0
          /\ address \in DOMAIN changes.roll_changes
          /\ changes.roll_changes[address] = 0
    /\ \E address \in DOMAIN prior.roll_changes :
          address \notin DOMAIN Unwrap(other).roll_changes
    /\ \E address \in DOMAIN Unwrap(other).production_stats :
          address \notin DOMAIN prior.production_stats
    /\ \E address \in DOMAIN Unwrap(other).production_stats :
          address \in DOMAIN prior.production_stats

\* extend(extend(a, b), c) and extend(a, extend(b, c)) agree on the
\* production statistics and on the deferred credits, whatever the
\* iteration orders of the hash maps
ExtendAssociates(a, b, c) ==
    \A ob \in IterOrders(DOMAIN b.production_stats) :
    \A oc \in IterOrders(DOMAIN c.production_stats) :
        LET bc == PoSChanges_extend(b, c, oc)
            left == PoSChanges_extend(PoSChanges_extend(a, b, ob), c, oc)
        IN \A obc \in IterOrders(DOMAIN bc.production_stats) :
              LET right == PoSChanges_extend(a, bc, obc)
              IN /\ left.production_stats = right.production_stats
                 /\ left.deferred_credits = right.deferred_credits

\* C18: for all PoSChanges a, b, c, extend(extend(a, b), c) and
\* extend(a, extend(b, c)) have equal production_stats and equal
\* deferred_credits, also when sums reach the saturation bound, and
\* extend(a, empty) = a.  Here a is the value before the last extend, b the
\* value it was extended with, and c any value of the pool.
C18_ExtendAssociativeWithIdentity ==
    /\ PoSChanges_extend(changes, PoSChangesDefault, <<>>) = changes
    /\ IsSome(other) =>
          /\ changes \in {PoSChanges_extend(prior, Unwrap(other), ob) :
                            ob \in IterOrders(DOMAIN Unwrap(other).production_stats)}
          /\ \A c \in ChangesPool : ExtendAssociates(prior, Unwrap(other), c)

\* a, b and c all count failures for one address and credit one address of
\* one slot, and a and b together already pass u64::MAX and Amount::MAX
C18_Witness ==
    /\ IsSome(other)
    /\ ~is_empty(changes)
    /\ \E c \in ChangesPool :
          /\ \E address \in DOMAIN c.production_stats :
                /\ address \in DOMAIN prior.production_stats
                /\ address \in DOMAIN Unwrap(other).production_stats
                /\ c.production_stats[address].block_failure_count > 0
                /\ prior.production_stats[address].block_failure_count > 0
                /\ prior.production_stats[address].block_failure_count
                      > U64_MAX - Unwrap(other).production_stats[address].block_failure_count
                /\ changes.production_stats[address].block_failure_count = U64_MAX
          /\ \E slot \in DOMAIN c.deferred_credits :
                /\ slot \in DOMAIN prior.deferred_credits
                /\ slot \in DOMAIN Unwrap(other).deferred_credits
                /\ \E address \in DOMAIN c.deferred_credits[slot] :
                      /\ address \in DOMAIN prior.deferred_credits[slot]
                      /\ address \in DOMAIN Unwrap(other).deferred_credits[slot]
                      /\ c.deferred_credits[slot][address] > 0
                      /\ prior.deferred_credits[slot][address]
                            + Unwrap(other).deferred_credits[slot][address] > AMOUNT_MAX
                      /\ changes.deferred_credits[slot][address] = AMOUNT_MAX

\* C19: for every PoSChanges x whose deferred-credit slots have a thread
\* below thread_count, PoSChangesDeserializer::new(thread_count) reads the
\* bytes PoSChangesSerializer wrote for x successfully, with an empty
\* remainder, and yields a value equal to x in seed_bits, roll_changes
\* (entries of value 0 included), production_stats and deferred_credits.
C19_PoSChangesRoundTrip ==
    (IsSome(decoded)
        /\ \A slot \in DOMAIN changes.deferred_credits : slot[2] < THREAD_COUNT) =>
        /\ Unwrap(decoded).ok
        /\ Unwrap(decoded).rest = <<>>
        /\ Unwrap(decoded).val.seed_bits = changes.seed_bits
        /\ Unwrap(decoded).val.roll_changes = changes.roll_changes
        /\ Unwrap(decoded).val.production_stats = changes.production_stats
        /\ Unwrap(decoded).val.deferred_credits = changes.deferred_credits

\* a value with seed bits that do not fill their last byte, two roll
\* changes of which one is 0, counters at u64::MAX, and two slots, one of
\* them in the last thread, has been written and read back
C19_Witness ==
    /\ IsSome(decoded)
    /\ Unwrap(decoded).ok
    /\ Len(changes.seed_bits) % 8 # 0
    /\ Cardinality(DOMAIN changes.roll_changes) = 2
    /\ \E address \in DOMAIN changes.roll_changes :
          /\ changes.roll_changes[address] = 0
          /\ address \in DOMAIN Unwrap(decoded).val.roll_changes
    /\ \E address \in DOMAIN changes.production_stats :
          changes.production_stats[address].block_success_count = U64_MAX
    /\ \E slot \in DOMAIN changes.deferred_credits :
          /\ slot[2] = THREAD_COUNT - 1
          /\ changes.deferred_credits[slot] # EmptyMap
    /\ Cardinality(DOMAIN changes.deferred_credits) >= 2

(***************************************************************************)
(* Canonical encoding of the bootstrap parts (SpecBoot).                   *)
(***************************************************************************)
\* the ascending iteration order of the credits of every slot
AscendingCreditsOrders(credits) ==
    [slot \in DOMAIN credits |-> SortedKeys(DOMAIN credits[slot])]

\* C20: the bytes get_cycle_history_part and get_deferred_credits_part
\* return are determined by the value of the state and the cursor alone:
\* whatever order the hash maps of the sender iterate in, the part is the
\* one that lists every map in ascending key order (roll_counts and
\* production_stats by address, deferred credits by slot then address).
C20_PartsCanonical ==
    /\ \A order \in StatsOrders(sender, cycle_cursor) :
          get_cycle_history_part(sender, cycle_cursor, order).part
             = get_cycle_history_part(sender, cycle_cursor,
                                      SortedKeys({order[i] : i \in 1..Len(order)})).part
    /\ \A orders \in CreditsOrders(sender) :
          get_deferred_credits_part(sender, credits_cursor, orders).part
             = get_deferred_credits_part(sender, credits_cursor,
                   AscendingCreditsOrders(sender.deferred_credits)).part

(***************************************************************************)
(* PoSChanges written by a peer that runs more threads: some of its        *)
(* deferred-credit slots have a thread this node does not have.  The       *)
(* bytes are read with PoSChangesDeserializer::new(THREAD_COUNT).          *)
(***************************************************************************)
ForeignCredits ==
    {MapInsert(EmptyMap, Slot(1, THREAD_COUNT), MapInsert(EmptyMap, A1, 5)),
     MapInsert(MapInsert(EmptyMap, Slot(1, 0), MapInsert(EmptyMap, A2, 1)),
               Slot(4, 255), EmptyMap),
     MapInsert(EmptyMap, Slot(0, THREAD_COUNT - 1), MapInsert(EmptyMap, A2, 9)),
     MapInsert(MapInsert(EmptyMap, Slot(2, THREAD_COUNT + 1),
                         MapInsert(EmptyMap, A1, AMOUNT_MAX)),
               Slot(2, THREAD_COUNT - 1), MapInsert(EmptyMap, A1, 0)),
     EmptyMap}

ForeignPool ==
    {PoSChanges(<<>>, EmptyMap, EmptyMap, nested_extend(credits, more)) :
        credits \in ForeignCredits, more \in ForeignCredits}

InitThread ==
    /\ sender = PoSFinalState(<<>>, EmptyMap)
    /\ InitReceiver
    /\ changes \in {PoSChanges_extend(mine, theirs, <<>>) :
                       mine \in ChangesPool,
                       theirs \in ForeignPool}
    /\ other = None
    /\ prior = changes
    /\ wire = None
    /\ decoded = None
    /\ judged = None
    /\ InitNoChannel

NextThread == SerializeChanges \/ DeserializeChanges

SpecThread == InitThread /\ [][NextThread]_vars

\* C21: PoSChangesDeserializer::new(thread_count) fails, producing no
\* PoSChanges, on any input whose deferred_credits section holds a slot
\* with thread >= thread_count, and accepts the input when every thread is
\* below thread_count.
C21_ThreadBoundEnforced ==
    IsSome(decoded) =>
        (Unwrap(decoded).ok
            <=> \A slot \in DOMAIN changes.deferred_credits : slot[2] < THREAD_COUNT)

\* bytes whose second slot has thread = thread_count, after a slot that is
\* in range, have been read and refused
C21_Witness ==
    /\ IsSome(decoded)
    /\ ~Unwrap(decoded).ok
    /\ \E slot \in DOMAIN changes.deferred_credits : slot[2] = THREAD_COUNT
    /\ \E slot \in DOMAIN changes.deferred_credits :
          /\ slot[2] < THREAD_COUNT
          /\ \A far \in DOMAIN changes.deferred_credits :
                far[2] >= THREAD_COUNT => SeqLess(slot, far)

(***************************************************************************)
(* A node prunes its deferred credits with remove_zeros, before, between   *)
(* and after the parts of a bootstrap.                                     *)
(***************************************************************************)
ZeroCredits ==
    {EmptyMap,
     MapInsert(MapInsert(EmptyMap,
         Slot(1, 0), MapInsert(EmptyMap, A1, 10)),
         Slot(2, 0), MapInsert(MapInsert(EmptyMap, A1, 0), A2, 5)),
     MapInsert(MapInsert(EmptyMap,
         Slot(1, 0), MapInsert(MapInsert(EmptyMap, A1, 0), A2, 0)),
         Slot(1, THREAD_COUNT - 1), EmptyMap)}

InitZeros ==
    /\ sender \in {PoSFinalState(<<>>, c) : c \in BootCredits}
    /\ receiver \in {PoSFinalState(<<>>, c) : c \in ZeroCredits}
    /\ cycle_cursor = None
    /\ credits_cursor = None
    /\ cycle_last = None
    /\ credits_last = None
    /\ before = receiver
    /\ last_op = "new"
    /\ last_err = ""
    /\ last_ret = None
    /\ redelivered = 0
    /\ InitNoChanges
    /\ InitNoChannel

\* receiver.deferred_credits.remove_zeros()
RemoveZeros ==
    /\ Applied(SetResult("", None,
                   PoSFinalState(receiver.cycle_history,
                                 remove_zeros(receiver.deferred_credits))),
               "remove_zeros")
    /\ UNCHANGED <<sender, cycle_cursor, credits_cursor, cycle_last,
                   credits_last, redelivered>>

NextZeros == BootPollDeferredCredits \/ RemoveZeros

SpecZeros == InitZeros /\ [][NextZeros]_vars

\* C22: after remove_zeros no (slot, address) entry has a zero amount and
\* no slot has an empty inner map; every entry with a non-zero amount is
\* kept with the same amount; a second remove_zeros changes nothing.
C22_RemoveZerosPrunes ==
    last_op = "remove_zeros" =>
        LET old == before.deferred_credits
            new == receiver.deferred_credits
        IN /\ \A slot \in DOMAIN new :
                /\ DOMAIN new[slot] # {}
                /\ \A address \in DOMAIN new[slot] : new[slot][address] # 0
           /\ \A slot \in DOMAIN old :
                \A address \in DOMAIN old[slot] :
                   old[slot][address] # 0 =>
                      /\ slot \in DOMAIN new
                      /\ address \in DOMAIN new[slot]
                      /\ new[slot][address] = old[slot][address]
           /\ remove_zeros(new) = new

\* remove_zeros has dropped a zero amount from a slot that keeps another
\* address, and a slot that was left empty
C22_Witness ==
    /\ last_op = "remove_zeros"
    /\ \E slot \in DOMAIN before.deferred_credits \cap DOMAIN receiver.deferred_credits :
          DOMAIN receiver.deferred_credits[slot] # DOMAIN before.deferred_credits[slot]
    /\ \E slot \in DOMAIN before.deferred_credits :
          /\ before.deferred_credits[slot] # EmptyMap
          /\ slot \notin DOMAIN receiver.deferred_credits

(***************************************************************************)
(* Properties of the two calls of one poll (SpecBoot).                     *)
(***************************************************************************)
\* the last call on the receiver was set_cycle_history_part with the part
\* of the last get_cycle_history_part answer
CyclePartApplied == last_op = "PollCycleHistory" /\ IsSome(cycle_last)

\* C23: set_cycle_history_part called with an empty byte slice returns
\* Ok(None) and leaves cycle_history, deferred_credits and every other
\* field of the PoS state unchanged, whatever the state was.
C23_EmptyCyclePartIsNoOp ==
    (CyclePartApplied /\ Unwrap(cycle_last).part = <<>>) =>
        /\ last_err = ""
        /\ last_ret = None
        /\ receiver = before

\* the empty part reached a receiver that holds cycles and credits
C23_Witness ==
    /\ CyclePartApplied
    /\ Unwrap(cycle_last).part = <<>>
    /\ Len(receiver.cycle_history) >= 2
    /\ receiver.deferred_credits # EmptyMap
    /\ last_ret = None

(***************************************************************************)
(* The protocol event channel: a bounded tokio mpsc channel whose Sender   *)
(* halves are held by the protocol worker and whose Receiver is wrapped    *)
(* by ProtocolEventReceiver or ProtocolPoolEventReceiver.  recv().await    *)
(* completes with the oldest event when the channel holds one, with None   *)
(* when it is empty and every Sender is dropped, and stays pending         *)
(* otherwise.                                                              *)
(***************************************************************************)
EventReceivers == {"ProtocolEventReceiver", "ProtocolPoolEventReceiver"}

Rx(kind, pc) == [receiver |-> kind, pc |-> pc]

\* self.0.recv().await is ready
RecvReady == channel # <<>> \/ senders = 0

WaitOk(evt) == [err |-> "", event |-> evt]

\* .ok_or_else(|| ProtocolError::ChannelError(..))
WaitErr == [err |-> "ChannelError", event |-> 0]

\* DrainPush that puts the event at the front
DrainPushFront(remaining, evt) == <<evt>> \o remaining

\* remaining_events.push_back(evt)
DrainPush(remaining, evt) == Append(remaining, evt)

InitChannel ==
    /\ sender = PoSFinalState(<<>>, EmptyMap)
    /\ InitReceiver
    /\ InitNoChanges
    /\ channel = <<>>
    /\ senders \in 1..MaxSenders
    /\ sent = 0
    /\ taken = <<>>
    /\ rx \in {Rx(kind, "open") : kind \in EventReceivers}
    /\ remaining_events = <<>>
    /\ wait_ret = None

ChannelOnly == UNCHANGED <<boot_vars, changes_vars>>

\* a Sender half sends the next event; it waits while the channel is full
SendEvent ==
    /\ senders > 0
    /\ sent < MaxEvents
    /\ Len(channel) < ChannelCapacity
    /\ rx.pc # "returned"
    /\ channel' = Append(channel, sent + 1)
    /\ sent' = sent + 1
    /\ UNCHANGED <<senders, taken, rx, remaining_events, wait_ret>>
    /\ ChannelOnly

CloneSender ==
    /\ senders > 0
    /\ senders < MaxSenders
    /\ senders' = senders + 1
    /\ UNCHANGED <<channel, sent, taken, rx, remaining_events, wait_ret>>
    /\ ChannelOnly

DropSender ==
    /\ senders > 0
    /\ senders' = senders - 1
    /\ UNCHANGED <<channel, sent, taken, rx, remaining_events, wait_ret>>
    /\ ChannelOnly

\* wait_event(&mut self)
WaitEvent ==
    /\ rx.pc = "open"
    /\ RecvReady
    /\ IF channel # <<>>
       THEN /\ wait_ret' = Some(WaitOk(Head(channel)))
            /\ taken' = Append(taken, Head(channel))
            /\ channel' = Tail(channel)
       ELSE /\ wait_ret' = Some(WaitErr)
            /\ UNCHANGED <<taken, channel>>
    /\ UNCHANGED <<senders, sent, rx, remaining_events>>
    /\ ChannelOnly

\* drain(mut self) is called: let mut remaining_events = VecDeque::new()
StartDrain ==
    /\ rx.pc = "open"
    /\ rx' = Rx(rx.receiver, "draining")
    /\ remaining_events' = <<>>
    /\ UNCHANGED <<channel, senders, sent, taken, wait_ret>>
    /\ ChannelOnly

\* while let Some(evt) = self.0.recv().await { remaining_events.push_back(evt) }
DrainRecv ==
    /\ rx.pc = "draining"
    /\ channel # <<>>
    /\ remaining_events' = DrainPush(remaining_events, Head(channel))
    /\ channel' = Tail(channel)
    /\ UNCHANGED <<senders, sent, taken, rx, wait_ret>>
    /\ ChannelOnly

\* recv() gave None: the loop ends and drain returns remaining_events
DrainReturn ==
    /\ rx.pc = "draining"
    /\ RecvReady
    /\ channel = <<>>
    /\ rx' = Rx(rx.receiver, "returned")
    /\ UNCHANGED <<channel, senders, sent, taken, remaining_events, wait_ret>>
    /\ ChannelOnly

NextChannel ==
    \/ SendEvent
    \/ CloneSender
    \/ DropSender
    \/ WaitEvent
    \/ StartDrain
    \/ DrainRecv
    \/ DrainReturn

SpecChannel == InitChannel /\ [][NextChannel]_vars

\* the events 1..n in the order they were sent
InSendOrder(n) == [k \in 1..n |-> k]

\* C24: drain returns every event still in the channel, oldest first, none
\* lost and none duplicated, and completes only once every Sender half is
\* dropped and the channel is empty; wait_event returns the next event in
\* send order, and ChannelError only when the channel is empty and every
\* Sender is dropped.
C24_DrainAndWaitInSendOrder ==
    rx.pc \in {"open", "draining", "returned"} =>
        /\ taken \o remaining_events \o channel = InSendOrder(sent)
        /\ rx.pc = "returned" =>
              /\ senders = 0
              /\ channel = <<>>
              /\ taken \o remaining_events = InSendOrder(sent)
        /\ (IsSome(wait_ret) /\ Unwrap(wait_ret).err = "") =>
              /\ taken # <<>>
              /\ Unwrap(wait_ret).event = Len(taken)
        /\ (IsSome(wait_ret) /\ Unwrap(wait_ret).err # "") =>
              /\ Unwrap(wait_ret).err = "ChannelError"
              /\ channel = <<>>
              /\ senders = 0

\* drain has returned two events or more after wait_event took the first
C24_Witness ==
    /\ rx.pc = "returned"
    /\ Len(taken) >= 1
    /\ Len(remaining_events) >= 2
    /\ taken \o remaining_events = InSendOrder(sent)

(***************************************************************************)
(* One poll of the cycle history, from any cursor (SpecResume).            *)
(***************************************************************************)
\* the 1-based position of the entry a poll is about: the one at
\* first_cycle_index for the cursor None, the one after the entry the
\* cursor names when that entry is not the last; 0 otherwise
StoredTarget ==
    LET history == sender.cycle_history
        named == {i \in 1..Len(history) : history[i].cycle = Unwrap(cycle_cursor)}
    IN IF ~IsSome(cycle_cursor)
       THEN IF Len(history) >= HISTORY_LENGTH THEN 2 ELSE 1
       ELSE IF named # {} /\ (\A i \in named : i < Len(history))
       THEN (CHOOSE i \in named : \A j \in named : i <= j) + 1
       ELSE 0

\* the bytes decode to the fields of info and nothing else
EncodesExactly(part, info) ==
    LET p == CycleHistoryParse(part)
    IN /\ p.ok
       /\ p.rest = <<>>
       /\ p.val[1] = info.cycle
       /\ p.val[2] = info.complete
       /\ Len(p.val[3]) = Cardinality(DOMAIN info.roll_counts)
       /\ \A i \in 1..Len(p.val[3]) :
             /\ p.val[3][i][1] \in DOMAIN info.roll_counts
             /\ p.val[3][i][2] = info.roll_counts[p.val[3][i][1]]
       /\ p.val[4] = info.rng_seed
       /\ Len(p.val[5]) = Cardinality(DOMAIN info.production_stats)
       /\ \A i \in 1..Len(p.val[5]) :
             /\ p.val[5][i][1] \in DOMAIN info.production_stats
             /\ ProductionStats(p.val[5][i][2], p.val[5][i][3])
                   = info.production_stats[p.val[5][i][1]]

\* C25: get_cycle_history_part with cursor None targets first_cycle_index
\* (1 if cycle_history holds at least 6 entries, else 0); with a cursor
\* found at a non-last index i it targets i + 1; if the target exists the
\* part encodes exactly that one CycleInfo and the call returns (bytes,
\* Some(its cycle), Some(its complete flag)); if cycle_history is empty it
\* returns (empty, None, None).
C25_OneCyclePerCall ==
    [][PollCycleHistory =>
          /\ (StoredTarget \in 1..Len(sender.cycle_history)) =>
                LET info == sender.cycle_history[StoredTarget]
                IN /\ EncodesExactly(Unwrap(cycle_last').part, info)
                   /\ Unwrap(cycle_last').cursor = Some(info.cycle)
                   /\ Unwrap(cycle_last').complete = Some(info.complete)
          /\ sender.cycle_history = <<>> =>
                cycle_last' = Some(GetResult(<<>>, None, None))]_vars

\* a sender with a full history answered a cursor naming its second entry
\* with its third
C25_Witness ==
    /\ last_op = "PollCycleHistory"
    /\ Len(sender.cycle_history) >= HISTORY_LENGTH
    /\ Len(before.cycle_history) >= 1
    /\ Last(before.cycle_history).cycle = sender.cycle_history[2].cycle
    /\ IsSome(cycle_last)
    /\ Unwrap(cycle_last).part # <<>>
    /\ Unwrap(cycle_last).cursor = Some(sender.cycle_history[3].cycle)
    /\ Last(receiver.cycle_history).cycle = sender.cycle_history[3].cycle

(***************************************************************************)
(* A receiver that kept the newest cycle an interrupted bootstrap gave it  *)
(* and starts the bootstrap again with the cursor None: the first part it  *)
(* gets may be for the cycle it already holds.                             *)
(***************************************************************************)
KeptHistories ==
    {<<>>} \cup {History(base, 1, shift, bc) :
                    base \in {0, 1, 125, 126}, shift \in 0..2, bc \in BOOLEAN}

InitMerge ==
    /\ sender \in {PoSFinalState(h, EmptyMap) : h \in BootHistories}
    /\ receiver \in {PoSFinalState(h, CreditsB) : h \in KeptHistories}
    /\ cycle_cursor = None
    /\ credits_cursor = None
    /\ cycle_last = None
    /\ credits_last = None
    /\ before = receiver
    /\ last_op = "new"
    /\ last_err = ""
    /\ last_ret = None
    /\ redelivered = 0
    /\ InitNoChanges
    /\ InitNoChannel

NextMerge == BootPollCycleHistory

SpecMerge == InitMerge /\ [][NextMerge]_vars

\* a non-empty part of the last get_cycle_history_part answer was applied
\* with success
CyclePayloadApplied ==
    /\ CyclePartApplied
    /\ Unwrap(cycle_last).part # <<>>
    /\ last_err = ""

\* the CycleInfo the part was written from
Payload ==
    sender.cycle_history[CHOOSE i \in 1..Len(sender.cycle_history) :
        Some(sender.cycle_history[i].cycle) = Unwrap(cycle_last).cursor]

\* m after every entry of payload was written over it
Overwritten(m, payload) ==
    [k \in DOMAIN m \cup DOMAIN payload |->
        IF k \in DOMAIN payload THEN payload[k] ELSE m[k]]

MergedInto(old, new) ==
    /\ Len(new) = Len(old)
    /\ \A i \in 1..(Len(old) - 1) : new[i] = old[i]
    /\ Last(new).cycle = Last(old).cycle
    /\ Last(new).complete = Payload.complete
    /\ Last(new).roll_counts = Overwritten(Last(old).roll_counts, Payload.roll_counts)
    /\ Last(new).rng_seed = Last(old).rng_seed \o Payload.rng_seed
    /\ Last(new).production_stats
          = Overwritten(Last(old).production_stats, Payload.production_stats)

PushedOnto(old, new) ==
    /\ Len(new) = Len(old) + 1
    /\ \A i \in 1..Len(old) : new[i] = old[i]
    /\ Last(new) = Payload

\* C26: if the receiver's last cycle has the payload's cycle number,
\* set_cycle_history_part keeps the number of entries and, in the last
\* entry only, sets complete to the payload's value, overwrites roll_counts
\* per address (absent addresses keep their count), appends the payload's
\* rng_seed bits after the existing bits and overwrites production_stats
\* per address without adding counters; otherwise it appends one entry
\* holding exactly the payload's fields; earlier entries and
\* deferred_credits are unchanged in both cases.
C26_MergeOrPush ==
    CyclePayloadApplied =>
        /\ IF before.cycle_history # <<>>
              /\ Last(before.cycle_history).cycle = Payload.cycle
           THEN MergedInto(before.cycle_history, receiver.cycle_history)
           ELSE PushedOnto(before.cycle_history, receiver.cycle_history)
        /\ receiver.deferred_credits = before.deferred_credits

\* a merge that wrote other counters over those of one address, kept the
\* counters of another, and left the entry count as it was
C26_Witness ==
    /\ CyclePayloadApplied
    /\ before.cycle_history # <<>>
    /\ Last(before.cycle_history).cycle = Payload.cycle
    /\ Len(receiver.cycle_history) = Len(before.cycle_history)
    /\ \E address \in DOMAIN Payload.production_stats :
          /\ address \in DOMAIN Last(before.cycle_history).production_stats
          /\ Last(before.cycle_history).production_stats[address]
                # Payload.production_stats[address]
    /\ \E address \in DOMAIN Last(before.cycle_history).production_stats :
          address \notin DOMAIN Payload.production_stats
    /\ Last(before.cycle_history).rng_seed # Last(receiver.cycle_history).rng_seed

(***************************************************************************)
(* The cursors of the two sides (SpecSet).                                 *)
(***************************************************************************)
\* set_cycle_history_part succeeded on the non-empty part of the last
\* get_cycle_history_part answer, delivered for the first or a later time
CyclePartAccepted ==
    /\ last_op \in {"PollCycleHistory", "RedeliverCycleHistory"}
    /\ IsSome(cycle_last)
    /\ Unwrap(cycle_last).part # <<>>
    /\ last_err = ""

\* C27: a successful set_cycle_history_part on a non-empty part returns
\* Some(c), where c is the cycle number encoded in the part and the cycle
\* of the receiver's new last entry; it is the next cursor
\* get_cycle_history_part returned with that part.
C27_CursorsAgree ==
    CyclePartAccepted =>
        /\ IsSome(last_ret)
        /\ CycleHistoryParse(Unwrap(cycle_last).part).ok
        /\ Unwrap(last_ret) = CycleHistoryParse(Unwrap(cycle_last).part).val[1]
        /\ Unwrap(last_ret) = Last(receiver.cycle_history).cycle
        /\ last_ret = Unwrap(cycle_last).cursor

\* the part of a cycle numbered in two bytes was pushed behind other cycles
C27_Witness ==
    /\ CyclePartAccepted
    /\ Len(receiver.cycle_history) >= 3
    /\ last_ret = Unwrap(cycle_last).cursor
    /\ IsSome(last_ret)
    /\ Unwrap(last_ret) >= 128
    /\ receiver.cycle_history[1].cycle # Unwrap(last_ret)

(***************************************************************************)
(* get_deferred_credits_part called with any cursor: the bootstrap of the  *)
(* deferred credits is resumed at a slot of the sender's map, at a slot    *)
(* between two of them, before the first or after the last, by a receiver  *)
(* that holds the sender's slots up to the cursor.                         *)
(***************************************************************************)
CursorSlots ==
    DOMAIN CreditsA \cup DOMAIN CreditsB \cup {Slot(0, 0), Slot(131, 0)}

\* the slots of credits that are not after the cursor
ResumedCredits(credits, cursor) ==
    Restrict(credits, DOMAIN credits \ CreditsRange(credits, cursor))

InitCursor ==
    /\ sender \in {PoSFinalState(<<>>, c) : c \in BootCredits}
    /\ credits_cursor \in {None} \cup {Some(slot) : slot \in CursorSlots}
    /\ receiver \in
          {PoSFinalState(<<>>, EmptyMap),
           PoSFinalState(<<>>, IF IsSome(credits_cursor)
                               THEN ResumedCredits(sender.deferred_credits,
                                                   credits_cursor)
                               ELSE EmptyMap)}
    /\ cycle_cursor = None
    /\ cycle_last = None
    /\ credits_last = None
    /\ before = receiver
    /\ last_op = "new"
    /\ last_err = ""
    /\ last_ret = None
    /\ redelivered = 0
    /\ InitNoChanges
    /\ InitNoChannel

NextCursor == BootPollDeferredCredits

SpecCursor == InitCursor /\ [][NextCursor]_vars

\* the bytes of a part after its count header
PartBody(part) == u64_deser(part).rest

\* the (slot, credits) entries a part holds, whatever its header says: the
\* one number of entries that uses up the bytes after the header
PartEntries(part) ==
    LET k == CHOOSE k \in 0..Len(part) :
                 /\ SlotEntries(k, Start(PartBody(part)), 256).ok
                 /\ SlotEntries(k, Start(PartBody(part)), 256).rest = <<>>
    IN SlotEntries(k, Start(PartBody(part)), 256).val

PartIsEntries(part) ==
    /\ part # <<>>
    /\ u64_deser(part).ok
    /\ \E k \in 0..Len(part) :
          /\ SlotEntries(k, Start(PartBody(part)), 256).ok
          /\ SlotEntries(k, Start(PartBody(part)), 256).rest = <<>>

\* the slots of a part, in the order they are written
PartSlots(part) ==
    IF part = <<>> THEN <<>>
    ELSE [i \in 1..Len(PartEntries(part)) |-> PartEntries(part)[i][1]]

\* the slots of the sender after the cursor the call was given
SlotsAfterCursor == CreditsRange(sender.deferred_credits, credits_cursor)

\* C28: get_deferred_credits_part(cursor) emits exactly the slots strictly
\* greater than the cursor (all slots for None), in strictly ascending
\* order, after a count header equal to the number of slots of the
\* sender's full map, and returns the last emitted slot as next cursor;
\* when no slot is greater than the cursor it returns empty bytes and
\* cursor None.
C28_CreditsPartLayout ==
    [][PollDeferredCredits =>
          LET got == Unwrap(credits_last')
          IN IF SlotsAfterCursor = {}
             THEN got.part = <<>> /\ got.cursor = None
             ELSE /\ PartIsEntries(got.part)
                  /\ PartSlots(got.part) = SortedKeys(SlotsAfterCursor)
                  /\ CollectCredits(EmptyMap, PartEntries(got.part))
                        = Restrict(sender.deferred_credits, SlotsAfterCursor)
                  /\ u64_deser(got.part).val
                        = Cardinality(DOMAIN sender.deferred_credits)
                  /\ got.cursor = Some(MaxKey(SlotsAfterCursor))]_vars

\* a part of one slot was emitted from a map of three, after a cursor that
\* is the second of them
C28_Witness ==
    /\ last_op = "PollDeferredCredits"
    /\ IsSome(credits_last)
    /\ Cardinality(DOMAIN sender.deferred_credits) = 3
    /\ PartIsEntries(Unwrap(credits_last).part)
    /\ Len(PartSlots(Unwrap(credits_last).part)) = 1
    /\ u64_deser(Unwrap(credits_last).part).val = 3
    /\ Unwrap(credits_last).cursor = Some(Slot(130, 0))

\* C29: for any sender map and any cursor, a non-empty part returned by
\* get_deferred_credits_part is parsed without error by
\* set_deferred_credits_part on a receiver with the same thread_count and
\* amount bounds, and merges exactly the sender's slots strictly greater
\* than the cursor.
C29_EveryPartAccepted ==
    [][PollDeferredCredits /\ Unwrap(credits_last').part # <<>> =>
          /\ last_err' = ""
          /\ receiver'.deferred_credits
                = nested_extend(receiver.deferred_credits,
                                Restrict(sender.deferred_credits,
                                         SlotsAfterCursor))]_vars

(***************************************************************************)
(* The polling loop of the deferred credits that does not stop at the      *)
(* first empty answer: every call is given the cursor the previous call    *)
(* returned, starting from None, against a sender that does not change.    *)
(***************************************************************************)
InitPoll ==
    /\ sender \in {PoSFinalState(<<>>, c) : c \in BootCredits}
    /\ InitReceiver
    /\ InitNoChanges
    /\ InitNoChannel

NextPoll == PollDeferredCredits

SpecPoll == InitPoll /\ [][NextPoll]_vars

\* every amount the receiver holds is at most the sender's amount for the
\* same slot and address
AtMostSender(credits) ==
    \A slot \in DOMAIN credits :
        \A address \in DOMAIN credits[slot] :
            /\ slot \in DOMAIN sender.deferred_credits
            /\ address \in DOMAIN sender.deferred_credits[slot]
            /\ credits[slot][address] <= sender.deferred_credits[slot][address]

\* C30: in a polling loop against a constant sender in which each
\* get_deferred_credits_part call receives the cursor returned by the
\* previous call (starting from None) and each returned part is applied
\* with set_deferred_credits_part, no slot is emitted in two different
\* calls (the receiver, empty at first, holds the slots emitted so far),
\* and at every step each receiver amount is at most the sender's amount
\* for the same (slot, address), also when the loop keeps polling after
\* the first empty answer.
C30_NoRetransfer ==
    [][PollDeferredCredits =>
          /\ \A i \in 1..Len(PartSlots(Unwrap(credits_last').part)) :
                PartSlots(Unwrap(credits_last').part)[i]
                    \notin DOMAIN receiver.deferred_credits
          /\ AtMostSender(receiver'.deferred_credits)]_vars

(***************************************************************************)
(* get_cycle_history_part as a call that may panic: the poll takes place   *)
(* when the call returns, and nothing but the panic is left when it does   *)
(* not.  The cursors and the senders are those of a resumed bootstrap.     *)
(***************************************************************************)
GetPanicked ==
    /\ last_op' = "panic"
    /\ UNCHANGED <<sender, receiver, cycle_cursor, credits_cursor, cycle_last,
                   credits_last, before, last_err, last_ret, redelivered,
                   changes_vars, channel_vars>>

GetCycleHistoryPart ==
    /\ last_op # "panic"
    /\ \E outcome \in GetCycleOutcomes(sender, cycle_cursor) :
          IF outcome = "Ok" THEN PollCycleHistory ELSE GetPanicked

NextGet == GetCycleHistoryPart

SpecGet == InitResume /\ [][NextGet]_vars

\* the answer the last call gave is the entry VecDeque::get finds at the
\* target index, or (empty, None, None) when it finds none
AnswersEntry(self, cursor, got) ==
    LET idx == CycleIndex(self, cursor)
    IN IsSome(idx) =>
          IF IsSome(GetEntry(self.cycle_history, Unwrap(idx)))
          THEN got.cursor
                  = Some(Unwrap(GetEntry(self.cycle_history, Unwrap(idx))).cycle)
          ELSE got = GetResult(<<>>, None, None)

\* C31: get_cycle_history_part is total and read-only: for every cursor
\* (None or any cycle number) and every cycle_history, the empty one
\* included, the call returns Ok without panicking (len() - 1 is only
\* evaluated on a non-empty history and the index lookup is
\* bounds-checked), and it leaves the sender's state unchanged.
C31_GetCycleHistoryTotal ==
    [][GetCycleHistoryPart =>
          /\ last_op' = "PollCycleHistory"
          /\ IsSome(cycle_last')
          /\ ReachesLenMinusOne(sender, cycle_cursor)
                => Len(sender.cycle_history) >= 1
          /\ AnswersEntry(sender, cycle_cursor, Unwrap(cycle_last'))
          /\ sender' = sender]_vars

\* a call on the empty history with a cursor: the lookup at index 0 found
\* nothing and the call returned (empty, None, None)
C31_Witness ==
    /\ last_op = "PollCycleHistory"
    /\ sender.cycle_history = <<>>
    /\ before.cycle_history # <<>>
    /\ cycle_last = Some(GetResult(<<>>, None, None))

====
